---- MODULE Spec2Model ----
(***************************************************************************)
(* A model of speaker-split: the per-speaker audio reconstruction of the   *)
(* local backend (src/backend/main.py), the segment concatenation of the   *)
(* cloud backend (src/backend-cloud/main.py) and the job bookkeeping of    *)
(* both.                                                                   *)
(*                                                                         *)
(* Audio is modelled at the resolution the code works at: one sample per   *)
(* millisecond, a clip being the sequence of its samples (pydub addresses  *)
(* an AudioSegment by millisecond and len(audio) is its length in ms).     *)
(* Samples are signed 16-bit integers.                                     *)
(***************************************************************************)
EXTENDS Integers, Sequences, FiniteSets, TLC

\* Longest source clip, in milliseconds.
MaxD == 2
\* Most segments in one diarization result.
MaxSegs == 2
\* Largest sample of the 16-bit audio pydub's AudioSegment.silent creates.
MaxSample == 32767
MinSample == -MaxSample - 1

VARIABLES
    audio,          \* split: the source clip, AudioSegment.from_file(audio_path)
    segments,       \* split: result["segments"], in input order
    output_files,   \* split: speaker label -> samples of the exported file
    split_pc,       \* split: "input", then which loop has run
    utterances,     \* cloud split: result["utterances"], in input order
    extract_ok,     \* cloud split: per utterance, whether ffmpeg extracted it
    concat_ok,      \* cloud split: whether ffmpeg's concat runs succeed
    speaker_audios, \* cloud split: the returned list, each entry with its file
    cloud_pc,       \* cloud split: "input", then "done"
    backend,        \* jobs: which server runs, "local" or "cloud"
    jobs,           \* jobs: the in-memory map, job id -> record
    status_files,   \* jobs: job id -> content of <UPLOAD_DIR>/<id>/status.json
    tasks,          \* jobs: the background tasks, in the order they were added
    posts,          \* jobs: job id -> number of POST /process requests served
    hf_token_valid, \* jobs (local): the global set by validate_hf_token
    hf_token_error, \* jobs (local): the global set by validate_hf_token
    api_valid,      \* jobs (cloud): the global set by validate_api_key
    writer,         \* status: the update_job_status call in progress
    reply,          \* status: the last response to a read of a job's state
    log,            \* status: the completed update_job_status calls
    token_check,    \* token: the call of validate_hf_token and what it met
    poll,           \* poll: the call of transcribe_with_assemblyai
    remote,         \* poll: the status of the transcript at the service
    vad,            \* patch: whisperx/vad.py and the runs of patch_vad on it
    stream          \* stream: the run of a streaming endpoint and its messages

splitVars == <<audio, segments, output_files, split_pc>>
cloudSplitVars == <<utterances, extract_ok, concat_ok, speaker_audios, cloud_pc>>
jobVars == <<backend, jobs, status_files, tasks, posts,
             hf_token_valid, hf_token_error, api_valid>>
statusVars == <<writer, reply, log>>
tokenVars == <<token_check>>
pollVars == <<poll, remote>>
patchVars == <<vad>>
streamVars == <<stream>>
vars == <<audio, segments, output_files, split_pc,
          utterances, extract_ok, concat_ok, speaker_audios, cloud_pc,
          backend, jobs, status_files, tasks, posts,
          hf_token_valid, hf_token_error, api_valid,
          writer, reply, log, token_check, poll, remote, vad, stream>>

----------------------------------------------------------------------------
(* Inputs of the split.                                                    *)

\* A segment dict without a "speaker" key.
NoSpeaker == "<no speaker key>"

\* What a segment holds under "speaker": a diarization label, or nothing.
SpeakerField == {"SPEAKER_00", NoSpeaker}

\* The source sample at millisecond t (1-based): neighbouring positions differ,
\* and the clip holds samples whose double does and does not fit 16 bits.
SourceSample(t) ==
    CASE t % 3 = 1 -> 20000
      [] t % 3 = 2 -> 3
      [] OTHER     -> -20000

SourceClip(d) == [t \in 1..d |-> SourceSample(t)]

\* Segment times, in milliseconds (segment["start"] * 1000 before int()).
\* They range from before the clip to after it.
SegmentTimes(d) == -1 .. d + 1

SegmentDicts(d) ==
    [speaker : SpeakerField, start : SegmentTimes(d), end : SegmentTimes(d)]

----------------------------------------------------------------------------
(* pydub, as far as split_audio_by_speaker uses it.                        *)

Max(a, b) == IF a >= b THEN a ELSE b
Min(a, b) == IF a <= b THEN a ELSE b

\* AudioSegment.silent(duration=d)
silent(d) == [t \in 1..d |-> 0]

\* audio[start_ms:end_ms]: both ends are cut to the clip's length.
Slice(seg, start_ms, end_ms) ==
    SubSeq(seg, Min(start_ms, Len(seg)) + 1, Min(end_ms, Len(seg)))

\* audioop.add on one sample: the sum, cut to the sample width.
add(a, b) == Max(MinSample, Min(MaxSample, a + b))

\* A paste: seg2 replaces what it covers of seg1 instead of being added to it.
overlay_replace(seg1, seg2, position) ==
    LET pos      == Min(position, Len(seg1))
        seg2_len == Min(Len(seg2), Len(seg1) - pos)
    IN  [t \in 1..Len(seg1) |->
            IF t > pos /\ t <= pos + seg2_len THEN seg2[t - pos] ELSE seg1[t]]

\* seg1.overlay(seg2, position): seg1 up to position, then seg2 added onto
\* seg1 sample by sample (seg2 cut to what is left of seg1), then the rest of
\* seg1. The result is as long as seg1.
overlay(seg1, seg2, position) ==
    LET pos       == Min(position, Len(seg1))
        remaining == Len(seg1) - pos
        seg2_len  == Min(Len(seg2), remaining)
    IN  [t \in 1..Len(seg1) |->
            IF t > pos /\ t <= pos + seg2_len
            THEN add(seg1[t], seg2[t - pos])
            ELSE seg1[t]]

----------------------------------------------------------------------------
(* split_audio_by_speaker                                                  *)

\* segment.get("speaker", "UNKNOWN")
get_speaker(segment) ==
    IF segment.speaker = NoSpeaker THEN "UNKNOWN" ELSE segment.speaker

\* Only the segments that carry a "speaker" key are grouped.
speaker_keys_labelled(segs) ==
    {segs[i].speaker : i \in {k \in 1..Len(segs) : segs[k].speaker # NoSpeaker}}

\* The keys of speaker_segments after the grouping loop.
speaker_keys(segs) == {get_speaker(segs[i]) : i \in 1..Len(segs)}

IsOf(speaker, segment) == get_speaker(segment) = speaker

\* speaker_segments[speaker]: that speaker's (start_ms, end_ms), input order.
speaker_segments(segs, speaker) ==
    LET of(segment) == IsOf(speaker, segment)
    IN  SelectSeq(segs, of)

\* A negative time is mirrored instead of being raised to 0.
clamp_abs(ms, duration_ms) == Min(IF ms < 0 THEN -ms ELSE ms, duration_ms)

\* start_ms = max(0, min(start_ms, duration_ms)), and the same for end_ms
clamp(ms, duration_ms) == Max(0, Min(ms, duration_ms))

\* The slice is appended to the track instead of being overlaid on it.
overlay_segment_append(speaker_audio, src, segment) ==
    LET duration_ms == Len(src)
        start_ms    == clamp(segment.start, duration_ms)
        end_ms      == clamp(segment.end, duration_ms)
    IN  IF end_ms > start_ms
        THEN speaker_audio \o Slice(src, start_ms, end_ms)
        ELSE speaker_audio

\* The slice is overlaid at the start of the track: position is left out.
overlay_segment_unplaced(speaker_audio, src, segment) ==
    LET duration_ms == Len(src)
        start_ms    == clamp(segment.start, duration_ms)
        end_ms      == clamp(segment.end, duration_ms)
    IN  IF end_ms > start_ms
        THEN overlay(speaker_audio, Slice(src, start_ms, end_ms), 0)
        ELSE speaker_audio

\* An inverted interval is turned round instead of being skipped.
overlay_segment_swapped(speaker_audio, src, segment) ==
    LET duration_ms == Len(src)
        start_ms    == clamp(segment.start, duration_ms)
        end_ms      == clamp(segment.end, duration_ms)
    IN  IF end_ms > start_ms
        THEN overlay(speaker_audio, Slice(src, start_ms, end_ms), start_ms)
        ELSE overlay(speaker_audio, Slice(src, end_ms, start_ms), end_ms)

\* One pass of the body of  for start_ms, end_ms in segments:
overlay_segment(speaker_audio, src, segment) ==
    LET duration_ms == Len(src)
        start_ms    == clamp(segment.start, duration_ms)
        end_ms      == clamp(segment.end, duration_ms)
    IN  IF end_ms > start_ms
        THEN overlay(speaker_audio, Slice(src, start_ms, end_ms), start_ms)
        ELSE speaker_audio

RECURSIVE overlay_segments(_, _, _)
overlay_segments(speaker_audio, src, segs) ==
    IF segs = <<>> THEN speaker_audio
    ELSE overlay_segments(overlay_segment(speaker_audio, src, Head(segs)),
                          src, Tail(segs))

\* The track exported for one speaker.
speaker_track(src, segs, speaker) ==
    overlay_segments(silent(Len(src)), src, speaker_segments(segs, speaker))

\* output_files of split_audio_by_speaker, each path standing for the samples
\* exported to it.
split_audio_by_speaker(src, segs) ==
    [speaker \in speaker_keys(segs) |-> speaker_track(src, segs, speaker)]

----------------------------------------------------------------------------
(* The split as a state machine.                                           *)

\* No server is running.
JobsIdle ==
    /\ backend = "none"
    /\ jobs = <<>>
    /\ status_files = <<>>
    /\ tasks = <<>>
    /\ posts = <<>>
    /\ hf_token_valid = FALSE
    /\ hf_token_error = ""
    /\ api_valid = FALSE

\* No call of update_job_status is in progress.
NoWriter ==
    [pc |-> "idle", job |-> "", updates |-> <<>>, by |-> "",
     known |-> FALSE, before |-> <<>>]

\* No read of a job's state has been answered.
NoReply ==
    [endpoint |-> "none", job |-> "", code |-> 0, record |-> <<>>,
     text |-> <<>>]

\* The status-file steps are not observed.
StatusIdle ==
    /\ writer = NoWriter
    /\ reply = NoReply
    /\ log = <<>>

\* validate_hf_token is not observed.
TokenIdle == token_check = <<>>

\* transcribe_with_assemblyai is not observed.
\* patch_vad is not under study: no file, no run.
PatchIdle ==
    vad = [exists |-> FALSE, content |-> <<>>, runs |-> 0,
           returned |-> FALSE, written |-> FALSE, modified |-> FALSE]

\* No streaming endpoint is running.
StreamIdle == stream = <<>>

PollIdle ==
    /\ poll = <<>>
    /\ remote = "none"

\* The cloud split is not running.
CloudSplitIdle ==
    /\ utterances = <<>>
    /\ extract_ok = <<>>
    /\ concat_ok = TRUE
    /\ speaker_audios = <<>>
    /\ cloud_pc = "idle"

InitSplit ==
    /\ \E d \in 0..MaxD, n \in 0..MaxSegs :
          /\ audio = SourceClip(d)
          /\ segments \in [1..n -> SegmentDicts(d)]
    /\ output_files = <<>>
    /\ split_pc = "input"
    /\ CloudSplitIdle
    /\ JobsIdle
    /\ StatusIdle
    /\ TokenIdle
    /\ PollIdle
    /\ PatchIdle
    /\ StreamIdle

\* process_audio's call of split_audio_by_speaker(audio_path, result, ...)
SplitAudioBySpeaker ==
    /\ split_pc = "input"
    /\ output_files' = split_audio_by_speaker(audio, segments)
    /\ split_pc' = "split_audio_by_speaker"
    /\ UNCHANGED <<audio, segments>>
    /\ UNCHANGED cloudSplitVars
    /\ UNCHANGED jobVars
    /\ UNCHANGED statusVars
    /\ UNCHANGED <<tokenVars, pollVars, patchVars, streamVars>>

\* The same loop inside POST /split.
SplitEndpointLoop ==
    /\ split_pc = "input"
    /\ output_files' = split_audio_by_speaker(audio, segments)
    /\ split_pc' = "split_audio_endpoint"
    /\ UNCHANGED <<audio, segments>>
    /\ UNCHANGED cloudSplitVars
    /\ UNCHANGED jobVars
    /\ UNCHANGED statusVars
    /\ UNCHANGED <<tokenVars, pollVars, patchVars, streamVars>>

NextSplit == SplitAudioBySpeaker \/ SplitEndpointLoop

SpecSplit == InitSplit /\ [][NextSplit]_vars

----------------------------------------------------------------------------
(* Properties of the split, stated on the input and the exported tracks.   *)

SplitDone == split_pc # "input"

D == Len(audio)

\* A time cut to [0, D].
InClip(ms) == IF ms < 0 THEN 0 ELSE IF ms > D THEN D ELSE ms

\* The label segment i counts under.
Label(i) ==
    IF segments[i].speaker = NoSpeaker THEN "UNKNOWN" ELSE segments[i].speaker

\* Segment i, cut to [0, D], covers the millisecond [t-1, t).
Covers(i, t) == InClip(segments[i].start) < t /\ t <= InClip(segments[i].end)

\* The segments of a speaker that cover the millisecond [t-1, t).
Layers(speaker, t) ==
    {i \in 1..Len(segments) : Label(i) = speaker /\ Covers(i, t)}

SegmentsOf(speaker) == {i \in 1..Len(segments) : Label(i) = speaker}

\* The input without segment i.
Without(i) ==
    [k \in 1..(Len(segments) - 1) |->
        IF k < i THEN segments[k] ELSE segments[k + 1]]

\* The tracks are what they would be had segment i not been in the input
\* (a speaker who had no other segment has a silent track).
AsIfAbsent(i) ==
    \A speaker \in DOMAIN output_files :
        output_files[speaker] =
            IF SegmentsOf(speaker) = {i}
            THEN [t \in 1..D |-> 0]
            ELSE speaker_track(audio, Without(i), speaker)

\* C1: every track the split exports is exactly as long as the source clip,
\* whatever the intervals are.
C1_TrackHasSourceDuration ==
    SplitDone =>
        \A speaker \in DOMAIN output_files : Len(output_files[speaker]) = D

\* C1 witness: a split has run on an interval that starts before the clip
\* and ends after it, next to an inverted one.
C1_Witness ==
    /\ SplitDone /\ D > 0 /\ Len(segments) = 2
    /\ segments[1].start < 0 /\ segments[1].end > D
    /\ segments[2].start > segments[2].end
    /\ Label(1) = Label(2)
    /\ Len(output_files[Label(1)]) = D

\* C2: a track is silent wherever no interval of its speaker (cut to
\* [0, D]) lies, and holds the source's sample of the same position wherever
\* exactly one does.
C2_SilentOutsidePlacedInside ==
    SplitDone =>
        \A speaker \in DOMAIN output_files :
            \A t \in 1..D :
                /\ Layers(speaker, t) = {} => output_files[speaker][t] = 0
                /\ Cardinality(Layers(speaker, t)) = 1 =>
                       output_files[speaker][t] = audio[t]

\* C2 witness: the single utterance [1, 2) on a clip of 2: silence, then the
\* source's second sample.
C2_Witness ==
    /\ SplitDone /\ D = 2 /\ Len(segments) = 1
    /\ segments[1].start = 1 /\ segments[1].end = 2
    /\ output_files[Label(1)] = <<0, audio[2]>>
    /\ audio[2] # 0 /\ audio[1] # audio[2]

\* C3: an utterance that ends at or before 0, or starts at or after D,
\* leaves every track as it would be without that utterance.
C3_OutsideContributesNothing ==
    SplitDone =>
        \A i \in 1..Len(segments) :
            (segments[i].end <= 0 \/ segments[i].start >= D) => AsIfAbsent(i)

\* C3 witness: a split of an utterance inside the clip and, for the same
\* speaker, one that starts inside it but ends before 0.
C3_Witness ==
    /\ SplitDone /\ D = 2 /\ Len(segments) = 2
    /\ Label(1) = Label(2)
    /\ segments[1].start = 0 /\ segments[1].end = 2
    /\ segments[2].start = 1 /\ segments[2].end = -1
    /\ output_files[Label(1)] = audio

\* C4: the track of a speaker with one utterance holds the source exactly
\* on the utterance's part inside [0, D] and silence elsewhere; an utterance
\* that is empty or inverted once cut to [0, D] changes no track, and the
\* split still ends with a track for its speaker.
C4_ClampedAndSkipped ==
    SplitDone =>
        /\ \A i \in 1..Len(segments) :
              SegmentsOf(Label(i)) = {i} =>
                  output_files[Label(i)] =
                      [t \in 1..D |->
                          IF InClip(segments[i].start) < t
                             /\ t <= InClip(segments[i].end)
                          THEN audio[t] ELSE 0]
        /\ \A i \in 1..Len(segments) :
              InClip(segments[i].end) <= InClip(segments[i].start) =>
                  /\ AsIfAbsent(i)
                  /\ Label(i) \in DOMAIN output_files

\* C4 witness: an interval from before the clip to its middle, which gives
\* the clip's first sample, next to another speaker's inverted interval.
C4_Witness ==
    /\ SplitDone /\ D = 2 /\ Len(segments) = 2
    /\ Label(1) # Label(2)
    /\ segments[1].start = -1 /\ segments[1].end = 1
    /\ segments[2].start = 2 /\ segments[2].end = 1
    /\ output_files[Label(1)] = <<audio[1], 0>>
    /\ output_files[Label(2)] = <<0, 0>>

\* The sum of n copies of a sample, cut to 16 bits.
Clipped(x) ==
    IF x > MaxSample THEN MaxSample ELSE IF x < MinSample THEN MinSample ELSE x

\* C5 as stated: where n utterances of a speaker overlap, the track holds
\* the sum of the n layers.
C5_OverlapHoldsSum ==
    SplitDone =>
        \A speaker \in DOMAIN output_files :
            \A t \in 1..D :
                output_files[speaker][t] =
                    Cardinality(Layers(speaker, t)) * audio[t]

\* C5, amended: where n utterances of a speaker overlap, every one of them
\* is a layer of the track (none is merged away), and the track holds the
\* sum of the n layers cut to the range of a 16-bit sample.
C5_OverlapHoldsClippedSum ==
    SplitDone =>
        \A speaker \in DOMAIN output_files :
            \A t \in 1..D :
                output_files[speaker][t] =
                    Clipped(Cardinality(Layers(speaker, t)) * audio[t])

\* C5 witness: two utterances of one speaker overlap on a sample whose
\* double does not fit 16 bits and on one whose double does.
C5_Witness ==
    /\ SplitDone /\ D = 2 /\ Len(segments) = 2
    /\ Label(1) = Label(2)
    /\ Layers(Label(1), 1) = {1, 2} /\ Layers(Label(1), 2) = {1, 2}
    /\ 2 * audio[1] > MaxSample
    /\ output_files[Label(1)] = <<MaxSample, 2 * audio[2]>>

\* C6: split_audio_by_speaker returns a track for exactly the labels that
\* occur in the segments, a segment without a label counting as UNKNOWN; a
\* speaker whose intervals are all skipped has a silent track of length D.
C6_OneTrackPerLabel ==
    split_pc = "split_audio_by_speaker" =>
        /\ \A i \in 1..Len(segments) : Label(i) \in DOMAIN output_files
        /\ \A speaker \in DOMAIN output_files : SegmentsOf(speaker) # {}
        /\ \A speaker \in DOMAIN output_files :
              (\A i \in SegmentsOf(speaker) :
                    InClip(segments[i].end) <= InClip(segments[i].start))
              => output_files[speaker] = [t \in 1..D |-> 0]

\* C6 witness: a segment without a label, its interval skipped, next to a
\* labelled one: two tracks, the UNKNOWN one silent.
C6_Witness ==
    /\ split_pc = "split_audio_by_speaker" /\ D = 2 /\ Len(segments) = 2
    /\ segments[1].speaker = NoSpeaker /\ segments[1].start >= D
    /\ segments[2].speaker = "SPEAKER_00"
    /\ DOMAIN output_files = {"UNKNOWN", "SPEAKER_00"}
    /\ output_files["UNKNOWN"] = <<0, 0>>

----------------------------------------------------------------------------
(* split_audio_by_speakers of the cloud backend.                           *)

\* What an utterance holds under "speaker": a label, or nothing.
CloudSpeakerField == {"B", NoSpeaker}

\* Utterance times, in milliseconds as the transcription service gives them:
\* an utterance lies in the clip it was transcribed from and ends after it
\* starts.
UtteranceTimes(d) == 0 .. d

UtteranceDicts(d) ==
    {u \in [speaker : CloudSpeakerField,
            start : UtteranceTimes(d), end : UtteranceTimes(d)] :
        u.start < u.end}

\* utterance.get("speaker", "A")
utterance_speaker(utterance) ==
    IF utterance.speaker = NoSpeaker THEN "A" ELSE utterance.speaker

\* Every speaker id, in sorted() order.
SortedSpeakerIds == <<"A", "B">>

\* The file ffmpeg writes for -ss start_time -t (end_time - start_time) when
\* it succeeds: the source from start_time on, for that long or to its end.
extract_audio_segment(src, start_time, end_time) ==
    SubSeq(src, Min(start_time, Len(src)) + 1, Min(end_time, Len(src)))

\* segment_files of one speaker: the files of the utterances of that speaker
\* whose extraction succeeded, in input order.
RECURSIVE segment_files(_, _, _, _, _)
segment_files(src, utts, ok, speaker_id, idx) ==
    IF idx > Len(utts) THEN <<>>
    ELSE IF utterance_speaker(utts[idx]) = speaker_id /\ ok[idx]
         THEN <<extract_audio_segment(src, utts[idx].start, utts[idx].end)>>
              \o segment_files(src, utts, ok, speaker_id, idx + 1)
         ELSE segment_files(src, utts, ok, speaker_id, idx + 1)

\* Only the first file reaches the output.
concat_first_only(input_files) == Head(input_files)

\* The file concat_audio_files writes: a copy of a single input, or the
\* inputs one after the other (ffmpeg -f concat).
RECURSIVE concat_audio_files(_)
concat_audio_files(input_files) ==
    IF input_files = <<>> THEN <<>>
    ELSE IF Len(input_files) = 1 THEN Head(input_files)
    ELSE Head(input_files) \o concat_audio_files(Tail(input_files))

\* What concat_audio_files returns: False without inputs, True after the
\* copy of a single input, else whether ffmpeg succeeded.
concat_success(input_files, ffmpeg_ok) ==
    IF input_files = <<>> THEN FALSE
    ELSE IF Len(input_files) = 1 THEN TRUE
    ELSE ffmpeg_ok

\* The list split_audio_by_speakers returns, each entry with the samples of
\* the file it names.
split_audio_by_speakers(src, utts, ok, ffmpeg_ok) ==
    LET files(id)    == segment_files(src, utts, ok, id, 1)
        grouped(id)  == \E i \in 1..Len(utts) : utterance_speaker(utts[i]) = id
        appended(id) == /\ grouped(id)
                        /\ files(id) # <<>>
                        /\ concat_success(files(id), ffmpeg_ok)
        ids          == SelectSeq(SortedSpeakerIds, appended)
    IN  [k \in 1..Len(ids) |->
            [speaker |-> ids[k], data |-> concat_audio_files(files(ids[k]))]]

\* The local split is not running.
SplitIdle ==
    /\ segments = <<>>
    /\ output_files = <<>>
    /\ split_pc = "idle"

InitCloudSplit ==
    /\ \E d \in 0..MaxD, n \in 0..MaxSegs :
          /\ audio = SourceClip(d)
          /\ utterances \in [1..n -> UtteranceDicts(d)]
    /\ extract_ok = <<>>
    /\ concat_ok = TRUE
    /\ speaker_audios = <<>>
    /\ cloud_pc = "input"
    /\ SplitIdle
    /\ JobsIdle
    /\ StatusIdle
    /\ TokenIdle
    /\ PollIdle
    /\ PatchIdle
    /\ StreamIdle

\* stream_split's call of split_audio_by_speakers; each ffmpeg run succeeds
\* or fails.
SplitAudioBySpeakers ==
    /\ cloud_pc = "input"
    /\ \E ok \in [1..Len(utterances) -> BOOLEAN], ffmpeg_ok \in BOOLEAN :
          /\ extract_ok' = ok
          /\ concat_ok' = ffmpeg_ok
          /\ speaker_audios' =
                split_audio_by_speakers(audio, utterances, ok, ffmpeg_ok)
    /\ cloud_pc' = "done"
    /\ UNCHANGED <<audio, utterances>>
    /\ UNCHANGED <<segments, output_files, split_pc>>
    /\ UNCHANGED jobVars
    /\ UNCHANGED statusVars
    /\ UNCHANGED <<tokenVars, pollVars, patchVars, streamVars>>

NextCloudSplit == SplitAudioBySpeakers

SpecCloudSplit == InitCloudSplit /\ [][NextCloudSplit]_vars

----------------------------------------------------------------------------
(* Properties of the cloud split.                                          *)

CloudSplitDone == cloud_pc = "done"

CloudLabel(i) ==
    IF utterances[i].speaker = NoSpeaker THEN "A" ELSE utterances[i].speaker

\* Utterance i covers the millisecond [t-1, t) of the source.
CloudCovers(i, t) ==
    InClip(utterances[i].start) < t /\ t <= InClip(utterances[i].end)

\* The part of the source utterance i spans.
Span(i) ==
    [t \in 1..(InClip(utterances[i].end) - InClip(utterances[i].start)) |->
        audio[InClip(utterances[i].start) + t]]

\* The extracted utterances of a speaker among the first n, back to back.
RECURSIVE Joined(_, _)
Joined(id, n) ==
    IF n = 0 THEN <<>>
    ELSE Joined(id, n - 1)
         \o (IF CloudLabel(n) = id /\ extract_ok[n] THEN Span(n) ELSE <<>>)

\* C7 as stated: every file of the cloud split is as long as the source and
\* holds the speaker's utterances at their offsets, silence elsewhere.
C7_CloudFileIsSpeakerTrack ==
    CloudSplitDone =>
        \A k \in 1..Len(speaker_audios) :
            /\ Len(speaker_audios[k].data) = D
            /\ \A t \in 1..D :
                  speaker_audios[k].data[t] =
                      IF \E i \in 1..Len(utterances) :
                            /\ CloudLabel(i) = speaker_audios[k].speaker
                            /\ CloudCovers(i, t)
                      THEN audio[t] ELSE 0

\* Every file of the cloud split holds the speaker's extracted utterances
\* one after the other in input order, with nothing between them.
CloudFilesAreConcatenations ==
    CloudSplitDone =>
        \A k \in 1..Len(speaker_audios) :
            speaker_audios[k].data =
                Joined(speaker_audios[k].speaker, Len(utterances))

----------------------------------------------------------------------------
(* Job bookkeeping: update_job_status, POST /process and the background    *)
(* task of each backend.                                                   *)

\* Most POST /process requests served in one run.
MaxPosts == 2
\* Most polls of the remote transcript that find it still in progress.
MaxPolls == 1

JobIds == {"job-a", "job-b"}

\* What validate_hf_token can leave in (hf_token_valid, hf_token_error).
TokenStates ==
    { <<TRUE, "">>,
      <<TRUE, "HuggingFace API returned status 500">>,
      <<FALSE, "HF_TOKEN environment variable is not set">> }

\* An update that resets the outputs starts the record afresh.
dict_update_fresh(record, updates) ==
    IF "outputs" \in DOMAIN updates /\ updates["outputs"] = {}
    THEN updates
    ELSE [k \in DOMAIN record \cup DOMAIN updates |->
             IF k \in DOMAIN updates THEN updates[k] ELSE record[k]]

\* The record is replaced by the updates.
dict_replace(record, updates) == updates

\* dict.update(updates): the keys of updates are set, the others kept.
dict_update(record, updates) ==
    [k \in DOMAIN record \cup DOMAIN updates |->
        IF k \in DOMAIN updates THEN updates[k] ELSE record[k]]

\* The update lands in every record of the map.
jobs_updated_all(job_id, updates) ==
    [j \in DOMAIN jobs \cup {job_id} |->
        dict_update(IF j \in DOMAIN jobs THEN jobs[j] ELSE <<>>, updates)]

\* jobs after  if job_id not in jobs: jobs[job_id] = {}  and
\* jobs[job_id].update(updates)
jobs_updated(job_id, updates) ==
    LET record == IF job_id \in DOMAIN jobs THEN jobs[job_id] ELSE <<>>
    IN  [j \in DOMAIN jobs \cup {job_id} |->
            IF j = job_id THEN dict_update(record, updates) ELSE jobs[j]]

\* The keys of a job record in the order the code inserts them: the six of
\* POST /process, then 'error'. A dict keeps insertion order and json.dump
\* writes the keys in that order.
JsonKeys ==
    <<"status", "progress", "stage", "speakers", "transcript", "outputs",
      "error">>

\* The key/value chunks json.dump writes for the keys from position i on.
RECURSIVE json_items(_, _)
json_items(record, i) ==
    IF i > Len(JsonKeys) THEN <<>>
    ELSE IF JsonKeys[i] \in DOMAIN record
         THEN <<[key |-> JsonKeys[i], value |-> record[JsonKeys[i]]]>>
                 \o json_items(record, i + 1)
         ELSE json_items(record, i + 1)

\* json.dump(record, f): the text of the document as the chunks written, the
\* opening brace, one chunk per key and the closing brace.
json_dump(record) ==
    <<[key |-> "{", value |-> ""]>> \o json_items(record, 1)
        \o <<[key |-> "}", value |-> ""]>>

\* Whether json.load accepts the text: a document from its opening to its
\* closing brace. On anything shorter it raises JSONDecodeError.
json_valid(text) ==
    /\ Len(text) >= 2
    /\ text[1].key = "{"
    /\ text[Len(text)].key = "}"
    /\ \A i \in 2..(Len(text) - 1) : text[i].key \notin {"{", "}"}

\* json.load(f) of a text it accepts.
json_load(text) ==
    [k \in {text[i].key : i \in 2..(Len(text) - 1)} |->
        text[CHOOSE i \in 2..(Len(text) - 1) : text[i].key = k].value]

\* The file is written from the record as it was before the update.
files_written_stale(job_id, record) ==
    [j \in DOMAIN status_files \cup {job_id} |->
        IF j = job_id THEN json_dump(writer.before) ELSE status_files[j]]

\* The files after  with open(status_file, "w") as f: json.dump(record, f)
\* for the status file of job_id.
files_written(job_id, record) ==
    [j \in DOMAIN status_files \cup {job_id} |->
        IF j = job_id THEN json_dump(record) ELSE status_files[j]]

\* update_job_status(job_id, updates): the record is updated in memory and
\* dumped to the job's status.json.
update_job_status(job_id, updates) ==
    /\ jobs' = jobs_updated(job_id, updates)
    /\ status_files' =
          files_written(job_id, jobs_updated(job_id, updates)[job_id])

\* A background task as add_task leaves it.
new_task(job_id, pc) ==
    [job |-> job_id, pc |-> pc, raised |-> "", writes |-> 0, polls |-> 0]

\* A task is added only for a job id that has none yet.
add_task_once(job_id, pc) ==
    IF \E t \in 1..Len(tasks) : tasks[t].job = job_id
    THEN tasks
    ELSE Append(tasks, new_task(job_id, pc))

\* background_tasks.add_task(...)
add_task(job_id, pc) == Append(tasks, new_task(job_id, pc))

RECURSIVE SumOver(_, _)
SumOver(f, S) ==
    IF S = {} THEN 0
    ELSE LET x == CHOOSE y \in S : TRUE IN f[x] + SumOver(f, S \ {x})

PostsServed == SumOver(posts, JobIds)

\* The task has written a status update.
wrote(task) == [task EXCEPT !.writes = @ + 1]

----------------------------------------------------------------------------
(* The local backend: process and process_audio.                           *)

\* process_audio never awaits: once it runs, the event loop serves nothing
\* else until it returns.
LoopFree ==
    \A t \in 1..Len(tasks) : tasks[t].pc \in {"queued", "done", "failed"}

\* The update POST /process starts a job with.
initial_status ==
    [status |-> "processing", progress |-> 30,
     stage |-> "Starting processing...",
     speakers |-> <<>>, transcript |-> <<>>, outputs |-> {}]

\* POST /process
process(job_id) ==
    /\ backend = "local"
    /\ PostsServed < MaxPosts
    /\ LoopFree
    /\ update_job_status(job_id, initial_status)
    /\ tasks' = add_task(job_id, "queued")
    /\ posts' = [posts EXCEPT ![job_id] = @ + 1]
    /\ UNCHANGED <<backend, hf_token_valid, hf_token_error, api_valid,
                   splitVars, cloudSplitVars, statusVars,
                   tokenVars, pollVars, patchVars, streamVars>>

\* The steps of process_audio that call out and can raise, each named by the
\* call the task is about to make.
LocalSteps ==
    {"imports", "convert", "load", "transcribe", "align", "diarize",
     "export", "split"}

\* After the first call the job is 'splitting' at 85, and the last update
\* puts it back to 'transcribing' at 40.
after_step_backwards(pc) ==
    IF pc = "split"
    THEN [next |-> "done",
          updates |-> [status |-> "transcribing", progress |-> 40,
                       stage |-> "Loading audio file..."]]
    ELSE [next |-> "split",
          updates |-> [status |-> "splitting", progress |-> 85,
                       stage |-> "Splitting audio by speaker..."]]

\* The last update reports 'complete' at 99 and without the outputs.
after_step_short(pc) ==
    IF pc = "split"
    THEN [next |-> "done",
          updates |-> [status |-> "complete", progress |-> 99,
                       stage |-> "Processing complete!"]]
    ELSE [next |-> "split",
          updates |-> [status |-> "splitting", progress |-> 85,
                       stage |-> "Splitting audio by speaker..."]]

\* The status update that follows the call made at pc, and where the task
\* stands after it.
after_step(pc) ==
    CASE pc = "imports" ->
           [next |-> "convert",
            updates |-> [status |-> "transcribing", progress |-> 35,
                         stage |-> "Converting audio format..."]]
      [] pc = "convert" ->
           [next |-> "load",
            updates |-> [status |-> "transcribing", progress |-> 40,
                         stage |-> "Loading audio file..."]]
      [] pc = "load" ->
           [next |-> "transcribe",
            updates |-> [progress |-> 45,
                         stage |-> "Transcribing with WhisperX..."]]
      [] pc = "transcribe" ->
           [next |-> "align",
            updates |-> [progress |-> 55,
                         stage |-> "Aligning word timestamps..."]]
      [] pc = "align" ->
           [next |-> "diarize",
            updates |-> [status |-> "diarizing", progress |-> 65,
                         stage |-> "Identifying speakers..."]]
      [] pc = "diarize" ->
           [next |-> "found",
            updates |-> [progress |-> 75,
                         stage |-> "Found 1 speakers, processing...",
                         speakers |-> <<"SPEAKER_00">>,
                         transcript |-> <<"SPEAKER_00">>]]
      [] pc = "found" ->
           [next |-> "export",
            updates |-> [progress |-> 80,
                         stage |-> "Exporting transcript files..."]]
      [] pc = "export" ->
           [next |-> "split",
            updates |-> [status |-> "splitting", progress |-> 85,
                         stage |-> "Splitting audio by speaker..."]]
      [] pc = "split" ->
           [next |-> "done",
            updates |-> [status |-> "complete", progress |-> 100,
                         stage |-> "Processing complete!",
                         outputs |-> {"json", "txt", "srt", "speakerAudios"}]]

\* str(e) of the exception the call made at pc raises.
exception_message(pc) ==
    CASE pc = "imports"    -> "[Errno 13] Permission denied: 'output'"
      [] pc = "convert"    -> "Command 'ffmpeg' returned non-zero exit status 1."
      [] pc = "load"       -> "Failed to load audio"
      [] pc = "transcribe" -> "CUDA out of memory"
      [] pc = "align"      -> "No default align-model for language"
      [] pc = "diarize"    -> "Could not download pyannote pipeline"
      [] pc = "export"     -> "[Errno 28] No space left on device"
      [] pc = "split"      -> "Decoding failed. ffmpeg returned error code: 1"

\* The failure update carries the message and leaves the status as it was.
error_update_message_only(message) == [error |-> message]

\* The update of every failure path of process_audio.
error_update(message) == [status |-> "error", error |-> message]

\* The failure path does not return: the task goes on with the next step.
failed_task_goes_on(task, message) ==
    [wrote(task) EXCEPT !.raised = message]

\* A task after its failure path: the update is written and the run is over.
failed_task(task, message) ==
    [wrote(task) EXCEPT !.pc = "failed", !.raised = message]

\* process_audio starts: its first update.
ProcessAudioStart(t) ==
    /\ backend = "local"
    /\ tasks[t].pc = "queued"
    /\ LoopFree
    /\ update_job_status(tasks[t].job,
          [status |-> "processing", progress |-> 35,
           stage |-> "Loading AI models..."])
    /\ tasks' = [tasks EXCEPT ![t] = [wrote(@) EXCEPT !.pc = "imports"]]
    /\ UNCHANGED <<backend, posts, hf_token_valid, hf_token_error, api_valid,
                   splitVars, cloudSplitVars, statusVars,
                   tokenVars, pollVars, patchVars, streamVars>>

\* The call at pc returns (at "imports": the imports succeed, the token is
\* valid and the output directory is made) and the next update is written.
ProcessAudioStep(t) ==
    /\ backend = "local"
    /\ tasks[t].pc \in LocalSteps \cup {"found"}
    /\ tasks[t].pc = "imports" => hf_token_valid
    /\ update_job_status(tasks[t].job, after_step(tasks[t].pc).updates)
    /\ tasks' = [tasks EXCEPT ![t] =
                    [wrote(@) EXCEPT !.pc = after_step(tasks[t].pc).next]]
    /\ UNCHANGED <<backend, posts, hf_token_valid, hf_token_error, api_valid,
                   splitVars, cloudSplitVars, statusVars,
                   tokenVars, pollVars, patchVars, streamVars>>

\* import torch / whisperx / pydub raises ImportError.
ProcessAudioImportError(t) ==
    /\ backend = "local"
    /\ tasks[t].pc = "imports"
    /\ LET message == "Missing dependency: No module named 'whisperx'"
                          \o ". Please install required packages."
       IN  /\ update_job_status(tasks[t].job, error_update(message))
           /\ tasks' = [tasks EXCEPT ![t] = failed_task(@, message)]
    /\ UNCHANGED <<backend, posts, hf_token_valid, hf_token_error, api_valid,
                   splitVars, cloudSplitVars, statusVars,
                   tokenVars, pollVars, patchVars, streamVars>>

\* if not hf_token_valid
ProcessAudioTokenInvalid(t) ==
    /\ backend = "local"
    /\ tasks[t].pc = "imports"
    /\ ~hf_token_valid
    /\ LET error_msg ==
              (IF hf_token_error # "" THEN hf_token_error
               ELSE "HuggingFace token not configured")
              \o "\n\nTo fix:\n1. Set HF_TOKEN environment variable"
       IN  /\ update_job_status(tasks[t].job, error_update(error_msg))
           /\ tasks' = [tasks EXCEPT ![t] = failed_task(@, error_msg)]
    /\ UNCHANGED <<backend, posts, hf_token_valid, hf_token_error, api_valid,
                   splitVars, cloudSplitVars, statusVars,
                   tokenVars, pollVars, patchVars, streamVars>>

\* The call at pc raises: except Exception as e.
ProcessAudioRaise(t) ==
    /\ backend = "local"
    /\ tasks[t].pc \in LocalSteps
    /\ tasks[t].pc = "imports" => hf_token_valid
    /\ LET message == exception_message(tasks[t].pc)
       IN  /\ update_job_status(tasks[t].job, error_update(message))
           /\ tasks' = [tasks EXCEPT ![t] = failed_task(@, message)]
    /\ UNCHANGED <<backend, posts, hf_token_valid, hf_token_error, api_valid,
                   splitVars, cloudSplitVars, statusVars,
                   tokenVars, pollVars, patchVars, streamVars>>

----------------------------------------------------------------------------
(* The cloud backend: process_audio_endpoint, process_wrapper and          *)
(* stream_process.                                                         *)

\* The update POST /process queues a job with.
queued_status ==
    [status |-> "queued", progress |-> 0,
     stage |-> "Queued for processing",
     speakers |-> <<>>, transcript |-> <<>>, outputs |-> {}]

\* POST /process
process_audio_endpoint(job_id) ==
    /\ backend = "cloud"
    /\ PostsServed < MaxPosts
    /\ update_job_status(job_id, queued_status)
    /\ tasks' = add_task(job_id, "scheduled")
    /\ posts' = [posts EXCEPT ![job_id] = @ + 1]
    /\ UNCHANGED <<backend, hf_token_valid, hf_token_error, api_valid,
                   splitVars, cloudSplitVars, statusVars,
                   tokenVars, pollVars, patchVars, streamVars>>

\* The scheduled callback, lambda: asyncio.create_task(process_wrapper()),
\* runs. create_task needs the running event loop of the calling thread:
\* called on the loop's thread it starts process_wrapper, called on a worker
\* thread it raises RuntimeError and process_wrapper never runs.
RunScheduledCallback(t) ==
    /\ backend = "cloud"
    /\ tasks[t].pc = "scheduled"
    /\ \/ tasks' = [tasks EXCEPT ![t].pc = "start"]
       \/ tasks' = [tasks EXCEPT ![t].pc = "lost"]
    /\ UNCHANGED <<backend, jobs, status_files, posts,
                   hf_token_valid, hf_token_error, api_valid,
                   splitVars, cloudSplitVars, statusVars,
                   tokenVars, pollVars, patchVars, streamVars>>

\* str(e) of the exception raised while the task stands at pc.
cloud_exception_message(pc) ==
    CASE pc = "upload"  -> "Upload failed: 401 Unauthorized"
      [] pc = "submit"  -> "Transcription request failed: 400 Bad Request"
      [] pc = "poll"    -> "Transcription failed: Unknown error"
      [] pc = "results" -> "[Errno 13] Permission denied: 'output'"

\* The update stream_process yields on failure.
cloud_error_update(message) == [error |-> message]

\* stream_process up to its first yield, applied by process_wrapper.
StreamProcessBegin(t) ==
    /\ backend = "cloud"
    /\ tasks[t].pc = "start"
    /\ IF ~api_valid
       THEN LET message == "AssemblyAI API key not configured. "
                             \o "Get a free key at https://www.assemblyai.com/"
            IN  /\ update_job_status(tasks[t].job, cloud_error_update(message))
                /\ tasks' = [tasks EXCEPT ![t] = failed_task(@, message)]
       ELSE /\ update_job_status(tasks[t].job,
                  [progress |-> 10, stage |-> "Uploading audio to cloud..."])
            /\ tasks' = [tasks EXCEPT ![t] = [wrote(@) EXCEPT !.pc = "upload"]]
    /\ UNCHANGED <<backend, posts, hf_token_valid, hf_token_error, api_valid,
                   splitVars, cloudSplitVars, statusVars,
                   tokenVars, pollVars, patchVars, streamVars>>

\* upload_to_assemblyai returns.
StreamProcessUploaded(t) ==
    /\ backend = "cloud"
    /\ tasks[t].pc = "upload"
    /\ update_job_status(tasks[t].job,
          [progress |-> 30, stage |-> "Transcribing with AI..."])
    /\ tasks' = [tasks EXCEPT ![t] = [wrote(@) EXCEPT !.pc = "submit"]]
    /\ UNCHANGED <<backend, posts, hf_token_valid, hf_token_error, api_valid,
                   splitVars, cloudSplitVars, statusVars,
                   tokenVars, pollVars, patchVars, streamVars>>

\* transcribe_with_assemblyai: the transcription request is accepted.
TranscriptSubmitted(t) ==
    /\ backend = "cloud"
    /\ tasks[t].pc = "submit"
    /\ tasks' = [tasks EXCEPT ![t].pc = "poll"]
    /\ UNCHANGED <<backend, jobs, status_files, posts,
                   hf_token_valid, hf_token_error, api_valid,
                   splitVars, cloudSplitVars, statusVars,
                   tokenVars, pollVars, patchVars, streamVars>>

\* transcribe_with_assemblyai: a poll finds the transcript neither completed
\* nor in error; the task sleeps and polls again.
TranscriptPending(t) ==
    /\ backend = "cloud"
    /\ tasks[t].pc = "poll"
    /\ tasks[t].polls < MaxPolls
    /\ tasks' = [tasks EXCEPT ![t].polls = @ + 1]
    /\ UNCHANGED <<backend, jobs, status_files, posts,
                   hf_token_valid, hf_token_error, api_valid,
                   splitVars, cloudSplitVars, statusVars,
                   tokenVars, pollVars, patchVars, streamVars>>

\* transcribe_with_assemblyai: a poll finds the transcript completed.
TranscriptCompleted(t) ==
    /\ backend = "cloud"
    /\ tasks[t].pc = "poll"
    /\ update_job_status(tasks[t].job,
          [progress |-> 70, stage |-> "Processing speaker segments..."])
    /\ tasks' = [tasks EXCEPT ![t] = [wrote(@) EXCEPT !.pc = "results"]]
    /\ UNCHANGED <<backend, posts, hf_token_valid, hf_token_error, api_valid,
                   splitVars, cloudSplitVars, statusVars,
                   tokenVars, pollVars, patchVars, streamVars>>

\* The transcript is saved and the last update yielded.
StreamProcessComplete(t) ==
    /\ backend = "cloud"
    /\ tasks[t].pc = "results"
    /\ update_job_status(tasks[t].job,
          [progress |-> 100, stage |-> "Complete", status |-> "completed",
           speakers |-> <<"Speaker A">>, transcript |-> <<"Speaker A">>])
    /\ tasks' = [tasks EXCEPT ![t] = [wrote(@) EXCEPT !.pc = "done"]]
    /\ UNCHANGED <<backend, posts, hf_token_valid, hf_token_error, api_valid,
                   splitVars, cloudSplitVars, statusVars,
                   tokenVars, pollVars, patchVars, streamVars>>

\* The upload, the transcription request, a poll (or the remote transcript
\* reporting an error) or the save raises: except Exception as e.
StreamProcessRaise(t) ==
    /\ backend = "cloud"
    /\ tasks[t].pc \in {"upload", "submit", "poll", "results"}
    /\ LET message == cloud_exception_message(tasks[t].pc)
       IN  /\ update_job_status(tasks[t].job, cloud_error_update(message))
           /\ tasks' = [tasks EXCEPT ![t] = failed_task(@, message)]
    /\ UNCHANGED <<backend, posts, hf_token_valid, hf_token_error, api_valid,
                   splitVars, cloudSplitVars, statusVars,
                   tokenVars, pollVars, patchVars, streamVars>>

----------------------------------------------------------------------------
(* The servers as a state machine.                                         *)

Init ==
    /\ backend \in {"local", "cloud"}
    /\ jobs = <<>>
    /\ status_files = <<>>
    /\ tasks = <<>>
    /\ posts = [j \in JobIds |-> 0]
    /\ IF backend = "local"
       THEN /\ \E token \in TokenStates :
                   /\ hf_token_valid = token[1]
                   /\ hf_token_error = token[2]
            /\ api_valid = FALSE
       ELSE /\ hf_token_valid = FALSE
            /\ hf_token_error = ""
            /\ api_valid \in BOOLEAN
    /\ audio = <<>>
    /\ SplitIdle
    /\ CloudSplitIdle
    /\ StatusIdle
    /\ TokenIdle
    /\ PollIdle
    /\ PatchIdle
    /\ StreamIdle

Next ==
    \/ \E job_id \in JobIds : process(job_id)
    \/ \E job_id \in JobIds : process_audio_endpoint(job_id)
    \/ \E t \in 1..Len(tasks) : ProcessAudioStart(t)
    \/ \E t \in 1..Len(tasks) : ProcessAudioStep(t)
    \/ \E t \in 1..Len(tasks) : ProcessAudioImportError(t)
    \/ \E t \in 1..Len(tasks) : ProcessAudioTokenInvalid(t)
    \/ \E t \in 1..Len(tasks) : ProcessAudioRaise(t)
    \/ \E t \in 1..Len(tasks) : RunScheduledCallback(t)
    \/ \E t \in 1..Len(tasks) : StreamProcessBegin(t)
    \/ \E t \in 1..Len(tasks) : StreamProcessUploaded(t)
    \/ \E t \in 1..Len(tasks) : TranscriptSubmitted(t)
    \/ \E t \in 1..Len(tasks) : TranscriptPending(t)
    \/ \E t \in 1..Len(tasks) : TranscriptCompleted(t)
    \/ \E t \in 1..Len(tasks) : StreamProcessComplete(t)
    \/ \E t \in 1..Len(tasks) : StreamProcessRaise(t)

Spec == Init /\ [][Next]_vars

----------------------------------------------------------------------------
(* The local server alone, with the scheduling of its background tasks.    *)

InitLocal == Init /\ backend = "local"

NextLocal ==
    \/ \E job_id \in JobIds : process(job_id)
    \/ \E t \in 1..Len(tasks) : ProcessAudioStart(t)
    \/ \E t \in 1..Len(tasks) : ProcessAudioStep(t)
    \/ \E t \in 1..Len(tasks) : ProcessAudioImportError(t)
    \/ \E t \in 1..Len(tasks) : ProcessAudioTokenInvalid(t)
    \/ \E t \in 1..Len(tasks) : ProcessAudioRaise(t)

\* Task t of the local server takes a step: it starts, or the call it stands
\* at returns or raises.
ProcessAudioRuns(t) ==
    /\ t \in 1..Len(tasks)
    /\ \/ ProcessAudioStart(t)
       \/ ProcessAudioStep(t)
       \/ ProcessAudioImportError(t)
       \/ ProcessAudioTokenInvalid(t)
       \/ ProcessAudioRaise(t)

\* The event loop runs the tasks added, one at a time, and every external
\* call of the running task returns or raises: while some task can take a
\* step, a task does.
SpecLocalLive ==
    /\ InitLocal
    /\ [][NextLocal]_vars
    /\ WF_vars(\E t \in 1..Len(tasks) : ProcessAudioRuns(t))

----------------------------------------------------------------------------
(* The cloud server alone, with the scheduling of its background tasks.    *)

InitCloud == Init /\ backend = "cloud"

NextCloud ==
    \/ \E job_id \in JobIds : process_audio_endpoint(job_id)
    \/ \E t \in 1..Len(tasks) : RunScheduledCallback(t)
    \/ \E t \in 1..Len(tasks) : StreamProcessBegin(t)
    \/ \E t \in 1..Len(tasks) : StreamProcessUploaded(t)
    \/ \E t \in 1..Len(tasks) : TranscriptSubmitted(t)
    \/ \E t \in 1..Len(tasks) : TranscriptPending(t)
    \/ \E t \in 1..Len(tasks) : TranscriptCompleted(t)
    \/ \E t \in 1..Len(tasks) : StreamProcessComplete(t)
    \/ \E t \in 1..Len(tasks) : StreamProcessRaise(t)

\* Task t of the cloud server takes a step: its scheduled callback runs, or
\* the call it awaits returns or raises.
ProcessWrapperRuns(t) ==
    /\ t \in 1..Len(tasks)
    /\ \/ RunScheduledCallback(t)
       \/ StreamProcessBegin(t)
       \/ StreamProcessUploaded(t)
       \/ TranscriptSubmitted(t)
       \/ TranscriptPending(t)
       \/ TranscriptCompleted(t)
       \/ StreamProcessComplete(t)
       \/ StreamProcessRaise(t)

\* Every scheduled callback is run once the response is sent, and the event
\* loop resumes every task whose awaited call has returned or raised: each
\* task that can take a step takes one.
SpecCloudLive ==
    /\ InitCloud
    /\ [][NextCloud]_vars
    /\ \A t \in 1..MaxPosts : WF_vars(ProcessWrapperRuns(t))

----------------------------------------------------------------------------
(* transcribe_with_assemblyai: the request and the polling loop.           *)

\* The polls of one call are counted up to MaxCounted; past it the count
\* stays at MaxCounted + 1, "more".
MaxCounted == 4

\* The status the service reports for a transcript.
RemoteStatuses == {"queued", "processing", "completed", "error"}

\* The loop gives up after MaxCounted polls.
after_poll_timeout(status, polls) ==
    CASE status = "completed" -> "returned"
      [] status = "error"     -> "raised"
      [] OTHER                -> IF polls >= MaxCounted THEN "raised"
                                 ELSE "sleep"

\* What the loop does with the status of a poll, the polls made so far
\* playing no part: return the result, raise, or sleep and poll again.
after_poll(status, polls) ==
    CASE status = "completed" -> "returned"
      [] status = "error"     -> "raised"
      [] OTHER                -> "sleep"

\* The call begins: the transcription request is about to be posted.
InitPoll ==
    /\ poll = [pc |-> "request", seen |-> "", polls |-> 0, raised |-> ""]
    /\ remote = "none"
    /\ TokenIdle
    /\ PatchIdle
    /\ StreamIdle
    /\ JobsIdle
    /\ StatusIdle
    /\ audio = <<>>
    /\ SplitIdle
    /\ CloudSplitIdle

\* session.post answers 200: the transcript is queued at the service.
TranscriptRequested ==
    /\ poll.pc = "request"
    /\ poll' = [poll EXCEPT !.pc = "poll"]
    /\ remote' = "queued"
    /\ UNCHANGED <<splitVars, cloudSplitVars, jobVars, statusVars, tokenVars,
                   patchVars, streamVars>>

\* session.post answers another status, or raises.
TranscriptRequestFails ==
    /\ poll.pc = "request"
    /\ \E message \in {"Transcription request failed: Bad Request",
                        "Cannot connect to host api.assemblyai.com"} :
          poll' = [poll EXCEPT !.pc = "raised", !.raised = message]
    /\ UNCHANGED remote
    /\ UNCHANGED <<splitVars, cloudSplitVars, jobVars, statusVars, tokenVars,
                   patchVars, streamVars>>

\* The service works on the transcript: queued, then processing, then
\* completed, or error at any point. Nothing makes it go on.
RemoteAdvances ==
    /\ \/ remote = "queued" /\ remote' \in {"processing", "error"}
       \/ remote = "processing" /\ remote' \in {"completed", "error"}
    /\ UNCHANGED poll
    /\ UNCHANGED <<splitVars, cloudSplitVars, jobVars, statusVars, tokenVars,
                   patchVars, streamVars>>

\* One turn of  while True : session.get answers with the status of the
\* transcript.
PollTranscript ==
    /\ poll.pc = "poll"
    /\ poll' = [poll EXCEPT
                  !.pc = after_poll(remote, poll.polls + 1),
                  !.seen = remote,
                  !.polls = IF @ > MaxCounted THEN @ ELSE @ + 1,
                  !.raised = IF remote = "error"
                             THEN "Transcription failed: Unknown error"
                             ELSE ""]
    /\ UNCHANGED remote
    /\ UNCHANGED <<splitVars, cloudSplitVars, jobVars, statusVars, tokenVars,
                   patchVars, streamVars>>

\* session.get or response.json() raises.
PollRaises ==
    /\ poll.pc = "poll"
    /\ poll' = [poll EXCEPT
                  !.pc = "raised",
                  !.seen = "",
                  !.raised = "Cannot connect to host api.assemblyai.com"]
    /\ UNCHANGED remote
    /\ UNCHANGED <<splitVars, cloudSplitVars, jobVars, statusVars, tokenVars,
                   patchVars, streamVars>>

\* await asyncio.sleep(3) is over.
SleepEnds ==
    /\ poll.pc = "sleep"
    /\ poll' = [poll EXCEPT !.pc = "poll"]
    /\ UNCHANGED remote
    /\ UNCHANGED <<splitVars, cloudSplitVars, jobVars, statusVars, tokenVars,
                   patchVars, streamVars>>

NextPoll ==
    \/ TranscriptRequested
    \/ TranscriptRequestFails
    \/ RemoteAdvances
    \/ PollTranscript
    \/ PollRaises
    \/ SleepEnds

\* The event loop resumes the call: a poll that does not raise is answered
\* and a sleep ends. The service is under no obligation.
SpecPoll ==
    /\ InitPoll
    /\ [][NextPoll]_vars
    /\ WF_vars(PollTranscript)
    /\ WF_vars(SleepEnds)

----------------------------------------------------------------------------
(* validate_hf_token, called once when the local server starts.            *)

\* HF_TOKEN as a string of characters: unset, of another format, or with the
\* prefix of a HuggingFace token.
Tokens ==
    { <<>>, <<"a", "b", "c">>, <<"h", "f">>,
      <<"h", "f", "_", "a">>, <<"h", "f", "_", "b">> }

\* str.startswith
startswith(string, prefix) ==
    /\ Len(string) >= Len(prefix)
    /\ SubSeq(string, 1, Len(prefix)) = prefix

\* What requests.get comes back with: a response with a status code, or an
\* exception.
Answers ==
    {[raised |-> "", status_code |-> c] : c \in {200, 401, 403, 404, 429, 500}}
    \cup {[raised |-> e, status_code |-> 0] :
             e \in {"Connection refused", "Read timed out"}}

\* No request was made.
NoAnswer == [raised |-> "", status_code |-> 0]

\* str(status_code) in the f-string of the message.
status_text(status_code) ==
    CASE status_code = 200 -> "200"
      [] status_code = 401 -> "401"
      [] status_code = 403 -> "403"
      [] status_code = 404 -> "404"
      [] status_code = 429 -> "429"
      [] status_code = 500 -> "500"

\* Every status of the model endpoint but 200 fails the validation.
model_verdict_strict(status_code) ==
    IF status_code = 200
    THEN [valid |-> TRUE, error |-> ""]
    ELSE [valid |-> FALSE,
          error |-> "HuggingFace API returned status "
                        \o status_text(status_code)]

\* What the status of the model endpoint makes of the token: whether it is
\* valid and the message set ("" when none is).
model_verdict(status_code) ==
    CASE status_code = 200 -> [valid |-> TRUE, error |-> ""]
      [] status_code = 401 ->
           [valid |-> FALSE,
            error |-> "HuggingFace token is invalid or expired"]
      [] status_code = 403 ->
           [valid |-> FALSE,
            error |-> "Token valid but no access to pyannote models. "
                          \o "Accept agreements at https://huggingface.co/"
                          \o "pyannote/speaker-diarization-3.1"]
      [] OTHER ->
           [valid |-> TRUE,
            error |-> "HuggingFace API returned status "
                          \o status_text(status_code)]

\* The server starts: the globals as the module sets them, and HF_TOKEN from
\* the environment.
InitToken ==
    /\ \E token \in Tokens :
          token_check = [pc |-> "start", HF_TOKEN |-> token, requests |-> 0,
                         whoami |-> NoAnswer, model |-> NoAnswer,
                         returned |-> FALSE]
    /\ JobsIdle
    /\ StatusIdle
    /\ PollIdle
    /\ PatchIdle
    /\ StreamIdle
    /\ audio = <<>>
    /\ SplitIdle
    /\ CloudSplitIdle

\* validate_hf_token up to its first request: the checks of the token's
\* format, then the request to whoami.
ValidateFormat ==
    /\ token_check.pc = "start"
    /\ IF token_check.HF_TOKEN = <<>>
       THEN /\ hf_token_error' = "HF_TOKEN environment variable is not set"
            /\ token_check' = [token_check EXCEPT !.pc = "returned",
                                                  !.returned = FALSE]
       ELSE IF ~startswith(token_check.HF_TOKEN, <<"h", "f", "_">>)
            THEN /\ hf_token_error' =
                      "HF_TOKEN must start with 'hf_' - check your token format"
                 /\ token_check' = [token_check EXCEPT !.pc = "returned",
                                                       !.returned = FALSE]
            ELSE /\ hf_token_error' = hf_token_error
                 /\ token_check' = [token_check EXCEPT !.pc = "whoami",
                                                       !.requests = @ + 1]
    /\ UNCHANGED <<backend, jobs, status_files, tasks, posts, hf_token_valid,
                   api_valid>>
    /\ UNCHANGED <<splitVars, cloudSplitVars, statusVars, pollVars,
                   patchVars, streamVars>>

\* The request to whoami is answered: 200 validates the token (and a body
\* that is not JSON raises in response.json(), which the handler catches), an
\* exception lets it pass, any other status leads to the request for the
\* model.
WhoamiAnswers ==
    /\ token_check.pc = "whoami"
    /\ \E answer \in Answers :
          IF answer.raised # ""
          THEN /\ hf_token_error' =
                    "Could not validate HuggingFace token: " \o answer.raised
               /\ hf_token_valid' = TRUE
               /\ token_check' = [token_check EXCEPT !.pc = "returned",
                                                     !.whoami = answer,
                                                     !.returned = TRUE]
          ELSE IF answer.status_code = 200
               THEN /\ hf_token_valid' = TRUE
                    /\ \/ hf_token_error' = hf_token_error
                       \/ hf_token_error' =
                            "Could not validate HuggingFace token: "
                                \o "Expecting value"
                    /\ token_check' = [token_check EXCEPT !.pc = "returned",
                                                          !.whoami = answer,
                                                          !.returned = TRUE]
               ELSE /\ UNCHANGED <<hf_token_valid, hf_token_error>>
                    /\ token_check' = [token_check EXCEPT !.pc = "model",
                                                          !.whoami = answer,
                                                          !.requests = @ + 1]
    /\ UNCHANGED <<backend, jobs, status_files, tasks, posts, api_valid>>
    /\ UNCHANGED <<splitVars, cloudSplitVars, statusVars, pollVars,
                   patchVars, streamVars>>

\* The request for the pyannote model is answered.
ModelAnswers ==
    /\ token_check.pc = "model"
    /\ \E answer \in Answers :
          IF answer.raised # ""
          THEN /\ hf_token_error' =
                    "Could not validate HuggingFace token: " \o answer.raised
               /\ hf_token_valid' = TRUE
               /\ token_check' = [token_check EXCEPT !.pc = "returned",
                                                     !.model = answer,
                                                     !.returned = TRUE]
          ELSE LET verdict == model_verdict(answer.status_code)
               IN  /\ hf_token_error' = IF verdict.error # ""
                                        THEN verdict.error
                                        ELSE hf_token_error
                   /\ hf_token_valid' = IF verdict.valid THEN TRUE
                                        ELSE hf_token_valid
                   /\ token_check' = [token_check EXCEPT
                                         !.pc = "returned",
                                         !.model = answer,
                                         !.returned = verdict.valid]
    /\ UNCHANGED <<backend, jobs, status_files, tasks, posts, api_valid>>
    /\ UNCHANGED <<splitVars, cloudSplitVars, statusVars, pollVars,
                   patchVars, streamVars>>

NextToken ==
    \/ ValidateFormat
    \/ WhoamiAnswers
    \/ ModelAnswers

SpecToken == InitToken /\ [][NextToken]_vars

----------------------------------------------------------------------------
(* patch_vad: the rewriting of whisperx/vad.py.                            *)

\* Most pieces of the text of vad.py.
MaxChunks == 2
\* Most runs of patch_vad on one installation.
MaxRuns == 3

\* The text of vad.py as the pieces patch_vad tells apart: the download by
\* urllib, the download by requests, the checksum test, the two texts the
\* patch puts in their place, other code that names the HuggingFace model,
\* and any other code.
VadChunks ==
    {"old_urllib", "old_requests", "old_check", "new_download", "new_check",
     "other_hf", "other"}

\* Whether a piece holds the text 'pyannote/segmentation-3.0': new_download
\* has it in its print and its repo_id, new_check in its comment.
has_marker_download_only(chunk) == chunk = "new_download"

has_marker(chunk) == chunk \in {"new_download", "new_check", "other_hf"}

\* pattern in content
contains(content, pattern) ==
    \E i \in 1..Len(content) : content[i] = pattern

\* 'pyannote/segmentation-3.0' in content
already_patched(content) ==
    \E i \in 1..Len(content) : has_marker(content[i])

\* content.replace(old, new): every occurrence is replaced.
replace(content, old, new) ==
    [i \in 1..Len(content) |-> IF content[i] = old THEN new ELSE content[i]]

\* The text after the replacement of the download: the urllib version if
\* it is there, else the requests version.
download_replaced(content) ==
    IF contains(content, "old_urllib")
    THEN replace(content, "old_urllib", "new_download")
    ELSE IF contains(content, "old_requests")
         THEN replace(content, "old_requests", "new_download")
         ELSE content

\* One run of patch_vad on an installation: what it returns, whether it
\* writes the file, and the text of the file after it.
patch_vad(file) ==
    IF ~file.exists
    THEN [returned |-> FALSE, written |-> FALSE, content |-> file.content]
    ELSE IF already_patched(file.content)
    THEN [returned |-> TRUE, written |-> FALSE, content |-> file.content]
    ELSE LET patched  == replace(download_replaced(file.content),
                                 "old_check", "new_check")
             modified == \/ contains(file.content, "old_urllib")
                         \/ contains(file.content, "old_requests")
                         \/ contains(file.content, "old_check")
         IN  IF modified
             THEN [returned |-> TRUE, written |-> TRUE, content |-> patched]
             ELSE [returned |-> FALSE, written |-> FALSE,
                   content |-> file.content]

\* An installation with or without whisperx/vad.py, before any run.
InitPatch ==
    /\ \E present \in BOOLEAN, n \in 0..MaxChunks :
          \E content \in [1..n -> VadChunks] :
             /\ ~present => n = 0
             /\ vad = [exists |-> present, content |-> content, runs |-> 0,
                       returned |-> FALSE, written |-> FALSE,
                       modified |-> FALSE]
    /\ StreamIdle
    /\ JobsIdle
    /\ StatusIdle
    /\ TokenIdle
    /\ PollIdle
    /\ audio = <<>>
    /\ SplitIdle
    /\ CloudSplitIdle

\* python patch_vad.py
PatchVad ==
    /\ vad.runs < MaxRuns
    /\ LET run == patch_vad(vad)
       IN  vad' = [exists |-> vad.exists, content |-> run.content,
                   runs |-> vad.runs + 1, returned |-> run.returned,
                   written |-> run.written,
                   modified |-> vad.modified \/ run.written]
    /\ UNCHANGED <<splitVars, cloudSplitVars, jobVars, statusVars, tokenVars,
                   pollVars, streamVars>>

NextPatch == PatchVad

SpecPatch == InitPatch /\ [][NextPatch]_vars

----------------------------------------------------------------------------
(* update_job_status step by step, and the readers of a job's state.       *)

\* Most calls of update_job_status in one run.
MaxUpdates == 3

\* The calls of update_job_status each backend makes, with the caller: the
\* POST /process handler or one of two background tasks.
UpdateCalls(side) ==
    IF side = "local"
    THEN {[by |-> "process", updates |-> initial_status]}
         \cup {[by |-> t, updates |-> u] :
                 t \in {"task 1", "task 2"},
                 u \in {after_step("align").updates,
                        error_update(exception_message("diarize"))}}
    ELSE {[by |-> "process", updates |-> queued_status]}
         \cup {[by |-> t, updates |-> u] :
                 t \in {"task 1", "task 2"},
                 u \in {[progress |-> 10,
                         stage |-> "Uploading audio to cloud..."],
                        cloud_error_update(cloud_exception_message("upload"))}}

\* The status files a starting server finds in UPLOAD_DIR: none, or the file
\* an earlier run of the server left for a job.
LeftoverFiles(side) ==
    LET record == dict_update(
                      IF side = "local" THEN initial_status ELSE queued_status,
                      IF side = "local"
                      THEN error_update(exception_message("load"))
                      ELSE cloud_error_update(cloud_exception_message("poll")))
    IN  {<<>>, [j \in {"job-b"} |-> json_dump(record)]}

\* The files after open(status_file, "w") on job_id's file: the file exists
\* and is empty.
file_opened_kept(job_id) ==
    [j \in DOMAIN status_files \cup {job_id} |->
        IF j \in DOMAIN status_files THEN status_files[j] ELSE <<>>]

file_opened(job_id) ==
    [j \in DOMAIN status_files \cup {job_id} |->
        IF j = job_id THEN <<>> ELSE status_files[j]]

\* update_job_status, its first lines: the record is made if the id is
\* unknown and updated in memory.
UpdateRecord(job_id, call) ==
    /\ writer.pc = "idle"
    /\ Len(log) < MaxUpdates
    /\ call \in UpdateCalls(backend)
    /\ jobs' = jobs_updated(job_id, call.updates)
    /\ writer' = [pc |-> "updated", job |-> job_id, updates |-> call.updates,
                  by |-> call.by, known |-> job_id \in DOMAIN jobs,
                  before |-> IF job_id \in DOMAIN jobs THEN jobs[job_id]
                             ELSE <<>>]
    /\ reply' = NoReply
    /\ UNCHANGED <<status_files, log>>
    /\ UNCHANGED <<backend, tasks, posts, hf_token_valid, hf_token_error,
                   api_valid, splitVars, cloudSplitVars,
                   tokenVars, pollVars, patchVars, streamVars>>

\* update_job_status: the job directory is made and status.json opened for
\* writing, which truncates it.
OpenStatusFile ==
    /\ writer.pc = "updated"
    /\ status_files' = file_opened(writer.job)
    /\ writer' = [writer EXCEPT !.pc = "opened"]
    /\ reply' = NoReply
    /\ UNCHANGED <<jobs, log>>
    /\ UNCHANGED <<backend, tasks, posts, hf_token_valid, hf_token_error,
                   api_valid, splitVars, cloudSplitVars,
                   tokenVars, pollVars, patchVars, streamVars>>

\* json.dump is writing: the buffer of the file is flushed with the document
\* written so far.
FlushStatusFile ==
    /\ writer.pc = "opened"
    /\ LET text == json_dump(jobs[writer.job])
       IN  \E n \in (Len(status_files[writer.job]) + 1)..(Len(text) - 1) :
               status_files' =
                   [status_files EXCEPT ![writer.job] = SubSeq(text, 1, n)]
    /\ reply' = NoReply
    /\ UNCHANGED <<jobs, writer, log>>
    /\ UNCHANGED <<backend, tasks, posts, hf_token_valid, hf_token_error,
                   api_valid, splitVars, cloudSplitVars,
                   tokenVars, pollVars, patchVars, streamVars>>

\* json.dump has returned and the with block closes the file: the whole
\* document is in it, and update_job_status returns.
CloseStatusFile ==
    /\ writer.pc = "opened"
    /\ status_files' = files_written(writer.job, jobs[writer.job])
    /\ log' = Append(log, <<writer.by, writer.job>>)
    /\ writer' = NoWriter
    /\ reply' = NoReply
    /\ UNCHANGED jobs
    /\ UNCHANGED <<backend, tasks, posts, hf_token_valid, hf_token_error,
                   api_valid, splitVars, cloudSplitVars,
                   tokenVars, pollVars, patchVars, streamVars>>

\* get_job answers from memory alone.
get_job_response_memory_only(job_id) ==
    IF job_id \in DOMAIN jobs
    THEN [endpoint |-> "get_job", job |-> job_id, code |-> 200,
          record |-> jobs[job_id], text |-> <<>>]
    ELSE [endpoint |-> "get_job", job |-> job_id, code |-> 404,
          record |-> <<>>, text |-> <<>>]

\* What GET /jobs/{job_id} answers: the record in memory, else the parsed
\* status.json (json.load raising gives a 500), else 404 'Job not found'.
get_job_response(job_id) ==
    IF job_id \in DOMAIN jobs
    THEN [endpoint |-> "get_job", job |-> job_id, code |-> 200,
          record |-> jobs[job_id], text |-> <<>>]
    ELSE IF job_id \in DOMAIN status_files
         THEN IF json_valid(status_files[job_id])
              THEN [endpoint |-> "get_job", job |-> job_id, code |-> 200,
                    record |-> json_load(status_files[job_id]), text |-> <<>>]
              ELSE [endpoint |-> "get_job", job |-> job_id, code |-> 500,
                    record |-> <<>>, text |-> <<>>]
         ELSE [endpoint |-> "get_job", job |-> job_id, code |-> 404,
               record |-> <<>>, text |-> <<>>]

\* GET /jobs/{job_id}. The handler runs on the event loop, so never while
\* update_job_status runs there.
get_job(job_id) ==
    /\ writer.pc = "idle"
    /\ reply' = get_job_response(job_id)
    /\ UNCHANGED <<jobs, status_files, writer, log>>
    /\ UNCHANGED <<backend, tasks, posts, hf_token_valid, hf_token_error,
                   api_valid, splitVars, cloudSplitVars,
                   tokenVars, pollVars, patchVars, streamVars>>

\* GET /files/{job_id}/status.json: the file is read off the event loop, at
\* any moment, also while update_job_status is writing it.
get_file(job_id) ==
    /\ reply' = IF job_id \in DOMAIN status_files
                THEN [endpoint |-> "get_file", job |-> job_id, code |-> 200,
                      record |-> <<>>, text |-> status_files[job_id]]
                ELSE [endpoint |-> "get_file", job |-> job_id, code |-> 404,
                      record |-> <<>>, text |-> <<>>]
    /\ UNCHANGED <<jobs, status_files, writer, log>>
    /\ UNCHANGED <<backend, tasks, posts, hf_token_valid, hf_token_error,
                   api_valid, splitVars, cloudSplitVars,
                   tokenVars, pollVars, patchVars, streamVars>>

InitStatus ==
    /\ backend \in {"local", "cloud"}
    /\ jobs = <<>>
    /\ status_files \in LeftoverFiles(backend)
    /\ tasks = <<>>
    /\ posts = <<>>
    /\ hf_token_valid = FALSE
    /\ hf_token_error = ""
    /\ api_valid = FALSE
    /\ StatusIdle
    /\ TokenIdle
    /\ PollIdle
    /\ PatchIdle
    /\ StreamIdle
    /\ audio = <<>>
    /\ SplitIdle
    /\ CloudSplitIdle

NextStatus ==
    \/ \E job_id \in JobIds, call \in UpdateCalls(backend) :
          UpdateRecord(job_id, call)
    \/ OpenStatusFile
    \/ FlushStatusFile
    \/ CloseStatusFile
    \/ \E job_id \in JobIds : get_job(job_id)
    \/ \E job_id \in JobIds : get_file(job_id)

SpecStatus == InitStatus /\ [][NextStatus]_vars

----------------------------------------------------------------------------
(* The streaming endpoints POST /transcribe and POST /split.               *)

\* Most speakers the diarization finds in the audio of a streamed run.
MaxSpeakers == 2

StreamEndpoints == {"transcribe", "split"}

\* A progress value as a fraction: the split reports 80 + 15 * (i + 1) / n.
whole(n) == [num |-> n, den |-> 1]

\* The messages a run yields on its way, before its loop and its last
\* message, in the order of the code (the stages without the counts their
\* f-strings put in).
Script(side, endpoint) ==
    CASE side = "local" /\ endpoint = "transcribe" ->
           << [progress |-> whole(25), stage |-> "Loading AI models..."],
              [progress |-> whole(30), stage |-> "Converting audio format..."],
              [progress |-> whole(35), stage |-> "Loading audio file..."],
              [progress |-> whole(45),
               stage |-> "Transcribing with WhisperX..."],
              [progress |-> whole(60),
               stage |-> "Aligning word timestamps..."],
              [progress |-> whole(75), stage |-> "Identifying speakers..."],
              [progress |-> whole(90), stage |-> "Formatting transcript..."] >>
      [] side = "local" /\ endpoint = "split" ->
           << [progress |-> whole(20), stage |-> "Loading AI models..."],
              [progress |-> whole(25), stage |-> "Converting audio format..."],
              [progress |-> whole(30), stage |-> "Loading audio file..."],
              [progress |-> whole(40),
               stage |-> "Transcribing with WhisperX..."],
              [progress |-> whole(50),
               stage |-> "Aligning word timestamps..."],
              [progress |-> whole(60), stage |-> "Identifying speakers..."],
              [progress |-> whole(70),
               stage |-> "Found speakers, separating audio..."],
              [progress |-> whole(80),
               stage |-> "Generating speaker audio files..."] >>
      [] side = "cloud" /\ endpoint = "transcribe" ->
           << [progress |-> whole(10), stage |-> "Uploading audio to cloud..."],
              [progress |-> whole(30), stage |-> "Transcribing with AI..."],
              [progress |-> whole(70),
               stage |-> "Processing speaker segments..."] >>
      [] side = "cloud" /\ endpoint = "split" ->
           << [progress |-> whole(5), stage |-> "Uploading audio to cloud..."],
              [progress |-> whole(20), stage |-> "Transcribing with AI..."],
              [progress |-> whole(50),
               stage |-> "Identifying speaker segments..."],
              [progress |-> whole(60), stage |-> "Splitting audio..."],
              [progress |-> whole(90), stage |-> "Finalizing audio files..."] >>

\* The progress of the message of the loop for speaker i of n grows by 15
\* with every speaker.
loop_progress_undivided(i, n) == whole(80 + 15 * (i + 1))

\* 80 + (15 * (i + 1) / len(speaker_segments)), i counted from 0.
loop_progress(i, n) == [num |-> 80 * n + 15 * (i + 1), den |-> n]

\* How many messages the loop over the speakers yields: the local split
\* yields one a speaker, the other runs have no loop.
loop_length(side, endpoint, speakers) ==
    IF side = "local" /\ endpoint = "split" THEN speakers ELSE 0

\* A message with progress and stage.
progress_message(progress, stage) ==
    [keys |-> {"progress", "stage"}, progress |-> progress, stage |-> stage,
     error |-> ""]

\* A message with the key 'error' alone.
error_message(message) ==
    [keys |-> {"error"}, progress |-> whole(0), stage |-> "",
     error |-> message]

\* The last message of a run that succeeds, with the results under the keys
\* of its endpoint.
complete_message(side, endpoint) ==
    [keys |-> {"progress", "stage"}
                \cup (IF side = "cloud"
                      THEN {"status", "speakers", "transcript"} ELSE {})
                \cup (IF endpoint = "transcribe" /\ side = "local"
                      THEN {"transcript"} ELSE {})
                \cup (IF endpoint = "split"
                      THEN {"speakerAudios"} ELSE {}),
     progress |-> whole(100), stage |-> "Complete", error |-> ""]

\* Whether the code that runs before script message k is yielded can raise:
\* nothing lies between the module's first yield and the start of the
\* generator, between the key check of the cloud runs and their first
\* yield, or between the local split's messages 7 and 8.
can_raise(side, endpoint, k) ==
    /\ k > 1
    /\ ~(side = "local" /\ endpoint = "split" /\ k = 8)

\* The message of the early return the code takes before script message k,
\* or "" where it has none.
early_return(side, endpoint, k) ==
    CASE side = "local" /\ k = 2 /\ ~hf_token_valid ->
           IF hf_token_error # "" THEN hf_token_error
           ELSE "HuggingFace token not configured"
      [] side = "cloud" /\ k = 1 /\ ~api_valid ->
           "AssemblyAI API key not configured. "
               \o "Get a free key at https://www.assemblyai.com/"
      [] OTHER -> ""

\* The early returns that depend on what the calls gave back: the import
\* that fails (local), no utterances and no speaker files (cloud split).
data_return(side, endpoint, k) ==
    CASE side = "local" /\ k = 2 ->
           "Missing dependency: No module named 'whisperx'"
      [] side = "cloud" /\ endpoint = "split" /\ k = 4 ->
           "No speaker segments found in audio"
      [] side = "cloud" /\ endpoint = "split" /\ k = 5 ->
           "Failed to split audio files"
      [] OTHER -> ""

\* The update is handed to process_wrapper, which writes it to the job.
stream_consumed_by_wrapper(job_id, update) ==
    [jobs |-> jobs_updated(job_id, [stage |-> update.stage]),
     status_files |->
        files_written(job_id,
                      jobs_updated(job_id, [stage |-> update.stage])[job_id])]

\* generate() of a streaming endpoint takes a message: it is serialised and
\* sent, and the job records and status files stay as they are.
stream_consumed(job_id, update) ==
    [jobs |-> jobs, status_files |-> status_files]

\* The run yields the message and goes on, or ends with it.
yielded(message, pc) ==
    /\ stream' = [stream EXCEPT !.messages = Append(@, message), !.pc = pc]
    /\ jobs' = stream_consumed(stream.job, message).jobs
    /\ status_files' = stream_consumed(stream.job, message).status_files
    /\ UNCHANGED <<backend, tasks, posts, hf_token_valid, hf_token_error,
                   api_valid>>
    /\ UNCHANGED <<splitVars, cloudSplitVars, statusVars, tokenVars, pollVars,
                   patchVars>>

\* The number of the next message of the run.
next_message == Len(stream.messages) + 1

\* A server with a request to a streaming endpoint at hand.
InitStream ==
    /\ backend \in {"local", "cloud"}
    /\ jobs = <<>>
    /\ status_files = <<>>
    /\ tasks = <<>>
    /\ posts = [j \in JobIds |-> 0]
    /\ IF backend = "local"
       THEN /\ \E token \in TokenStates :
                   /\ hf_token_valid = token[1]
                   /\ hf_token_error = token[2]
            /\ api_valid = FALSE
       ELSE /\ hf_token_valid = FALSE
            /\ hf_token_error = ""
            /\ api_valid \in BOOLEAN
    /\ \E endpoint \in StreamEndpoints, n \in 0..MaxSpeakers :
          /\ loop_length(backend, endpoint, n) = 0 => n = 0
          /\ stream = [endpoint |-> endpoint, job |-> "job-a", pc |-> "run",
                       speakers |-> n, messages |-> <<>>]
    /\ audio = <<>>
    /\ SplitIdle
    /\ CloudSplitIdle
    /\ StatusIdle
    /\ TokenIdle
    /\ PollIdle
    /\ PatchIdle

\* The code before the next message of the script returns and the message
\* is yielded.
GenerateYields ==
    /\ stream.pc = "run"
    /\ next_message <= Len(Script(backend, stream.endpoint))
    /\ early_return(backend, stream.endpoint, next_message) = ""
    /\ LET line == Script(backend, stream.endpoint)[next_message]
       IN  yielded(progress_message(line.progress, line.stage), "run")

\* The loop of the local split yields the message of its next speaker.
GenerateSpeaker ==
    /\ stream.pc = "run"
    /\ LET script == Len(Script(backend, stream.endpoint))
           n      == loop_length(backend, stream.endpoint, stream.speakers)
           i      == next_message - script - 1
       IN  /\ next_message > script
           /\ i < n
           /\ yielded(progress_message(loop_progress(i, n), "Processing"),
                      "run")

\* An early return: the error message is yielded and the generator returns.
GenerateReturnsEarly ==
    /\ stream.pc = "run"
    /\ next_message <= Len(Script(backend, stream.endpoint))
    /\ \E message \in
            {early_return(backend, stream.endpoint, next_message),
             data_return(backend, stream.endpoint, next_message)} :
          /\ message # ""
          /\ yielded(error_message(message), "done")

\* The code before the next message raises: except Exception as e.
GenerateRaises ==
    /\ stream.pc = "run"
    /\ can_raise(backend, stream.endpoint, next_message)
    /\ early_return(backend, stream.endpoint, next_message) = ""
    /\ yielded(error_message("[Errno 2] No such file or directory"), "done")

\* The last message of a run that succeeds.
GenerateCompletes ==
    /\ stream.pc = "run"
    /\ next_message =
          Len(Script(backend, stream.endpoint))
            + loop_length(backend, stream.endpoint, stream.speakers) + 1
    /\ yielded(complete_message(backend, stream.endpoint), "done")

NextStream ==
    \/ GenerateYields
    \/ GenerateSpeaker
    \/ GenerateReturnsEarly
    \/ GenerateRaises
    \/ GenerateCompletes
    \/ \E job_id \in JobIds : process(job_id)
    \/ \E job_id \in JobIds : process_audio_endpoint(job_id)
    \/ \E job_id \in JobIds : get_job(job_id)

SpecStream == InitStream /\ [][NextStream]_vars

----------------------------------------------------------------------------
(* Properties of the job bookkeeping.                                      *)

Tasks == 1..Len(tasks)

\* Task t of the given backend meets its failure in this step.
Fails(t, side) ==
    /\ backend = side
    /\ tasks[t].raised = ""
    /\ tasks'[t].raised # ""

\* The record of task t's job names the failure of t.
MarkedError(record, t) ==
    /\ "status" \in DOMAIN record
    /\ record["status"] = "error"
    /\ "error" \in DOMAIN record
    /\ record["error"] = tasks[t].raised
    /\ record["error"] # ""

\* C8: in the local backend, the step in which a run of process_audio fails
\* leaves the job with status 'error' and the failure message in 'error', in
\* memory and in status.json; the run is then over: the failed task takes no
\* further step (no retry, no later stage, no further write).
C8_LocalFailureMarksJobError ==
    [][\A t \in Tasks :
          /\ Fails(t, "local") =>
                /\ MarkedError(jobs[tasks[t].job], t)'
                /\ json_valid(status_files[tasks[t].job])'
                /\ MarkedError(json_load(status_files[tasks[t].job]), t)'
                /\ tasks'[t].pc = "failed"
          /\ (backend = "local" /\ tasks[t].raised # "") =>
                tasks'[t] = tasks[t]]_vars

\* A local run failed in diarization after its earlier stages had written, and
\* the job is marked with that failure.
C8_Witness ==
    \E t \in Tasks :
        /\ backend = "local"
        /\ tasks[t].pc = "failed"
        /\ tasks[t].raised = exception_message("diarize")
        /\ tasks[t].writes = 7
        /\ MarkedError(jobs[tasks[t].job], t)
        /\ jobs[tasks[t].job]["stage"] = "Identifying speakers..."

\* C9: in the cloud backend, the step in which a job started by POST /process
\* fails leaves the job record with status 'error' and the failure message in
\* 'error'.
C9_CloudFailureMarksJobError ==
    [][\A t \in Tasks :
          Fails(t, "cloud") => MarkedError(jobs[tasks[t].job], t)']_vars

\* The tasks scheduled for job id j.
TasksOf(j) == {t \in Tasks : tasks[t].job = j}

\* The task has started: it has written to its job's record.
Started(t) == tasks[t].writes > 0

\* C10: at most one background task is ever started for a job id, so no two
\* tasks write the same job record.
C10_AtMostOneTaskPerJob ==
    \A j \in JobIds :
        Cardinality({t \in TasksOf(j) : Started(t)}) <= 1

\* C10 as the code has it: every POST /process schedules one more task for
\* its job id, whatever tasks the id already has; the tasks of a job id are as
\* many as the requests made for it.
C10_OneTaskPerRequest ==
    \A j \in JobIds : Cardinality(TasksOf(j)) = posts[j]

\* Two requests for one job id: both tasks ran and wrote the same record.
C10_Witness ==
    \E j \in JobIds :
        /\ posts[j] = 2
        /\ \E t1, t2 \in TasksOf(j) :
              /\ t1 # t2
              /\ Started(t1)
              /\ Started(t2)

----------------------------------------------------------------------------
(* Properties of update_job_status and of the readers.                     *)

\* status.json of job j holds the record of j in memory.
Mirrored(j) ==
    /\ j \in DOMAIN status_files
    /\ json_valid(status_files[j])
    /\ json_load(status_files[j]) = jobs[j]

Partial(text, document) ==
    /\ Len(text) < Len(document)
    /\ SubSeq(document, 1, Len(text)) = text
    /\ ~json_valid(text)

JobState(j) ==
    <<j \in DOMAIN jobs, IF j \in DOMAIN jobs THEN jobs[j] ELSE <<>>,
      j \in DOMAIN status_files,
      IF j \in DOMAIN status_files THEN status_files[j] ELSE <<>>>>

\* The step is one of job id j: a POST /process for j or a step of a task of j.
StepOf(j) ==
    \/ posts'[j] # posts[j]
    \/ \E t \in 1..Len(tasks) : tasks[t].job = j /\ tasks'[t] # tasks[t]

\* C14: job state is kept per job. A step changes the record or the status
\* file of a job id only if it is a POST /process for that id or a step of a
\* task of that id; under any interleaving, the steps of job A leave the
\* record and the file of every other job B as they were.
C14_UpdatesTouchOneJob ==
    [][\A a \in JobIds :
          StepOf(a) =>
              /\ \A b \in JobIds \ {a} : JobState(b)' = JobState(b)
              /\ a \in DOMAIN jobs'
              /\ a \in DOMAIN status_files'
      ]_vars

\* The task of job-a ran to its failure after job-b was posted: job-b still
\* has the record and the file its POST wrote.
C14_Witness ==
    /\ DOMAIN jobs = {"job-a", "job-b"}
    /\ jobs["job-a"]["status"] = "error"
    /\ jobs["job-a"]["progress"] = 65
    /\ jobs["job-b"] = initial_status
    /\ status_files["job-b"] = json_dump(initial_status)
    /\ status_files["job-a"] = json_dump(jobs["job-a"])

\* The job has a terminal status.
Terminal(j) ==
    j \in DOMAIN jobs /\ jobs[j]["status"] \in {"complete", "error"}

\* C15: in the local backend every job started by POST /process reaches a
\* terminal status, 'complete' or 'error', when every external step returns or
\* raises: once jobs are posted, a state comes in which every posted job is
\* terminal; and the step that ends a run of process_audio never leaves the
\* job in a status that is not terminal.
C15_LocalJobReachesTerminalStatus ==
    /\ (PostsServed > 0) ~> (\A j \in JobIds : posts[j] > 0 => Terminal(j))
    /\ [][\A t \in 1..Len(tasks) :
            (tasks[t].pc \notin {"done", "failed"}
               /\ tasks'[t].pc \in {"done", "failed"}) =>
                Terminal(tasks[t].job)']_vars

\* A job was posted twice and both of its runs are over: one failed, one ran
\* to the end, which left the job 'complete'.
C15_Witness ==
    /\ backend = "local"
    /\ Len(tasks) = 2
    /\ tasks[1].job = tasks[2].job
    /\ tasks[1].pc = "failed"
    /\ tasks[2].pc = "done"
    /\ jobs[tasks[1].job]["status"] = "complete"

\* The job shows the end of its processing: progress 100 with status
\* 'completed', or an error.
ShowsOutcome(j) ==
    /\ j \in DOMAIN jobs
    /\ \/ jobs[j]["progress"] = 100 /\ jobs[j]["status"] = "completed"
       \/ "error" \in DOMAIN jobs[j]

\* C16: in the cloud backend POST /process starts the job: the callback it
\* schedules starts process_wrapper, which applies the updates of
\* stream_process, so that once jobs are posted every posted job comes to show
\* progress 100 with status 'completed' or an error.
C16_CloudPostStartsJob ==
    /\ [][\A t \in 1..Len(tasks) :
            (tasks[t].pc = "scheduled" /\ tasks'[t].pc # "scheduled") =>
                tasks'[t].pc = "start"]_vars
    /\ (PostsServed > 0) ~> (\A j \in JobIds : posts[j] > 0 => ShowsOutcome(j))

\* C17: update_job_status(job_id, updates) makes an empty record for an
\* unknown job id and then sets exactly the keys of updates, keeping every
\* other key of the record with its value; so the error update of
\* process_audio, which carries 'status' and 'error' alone, leaves progress,
\* stage, speakers, transcript and outputs as the last stage reached set them.
C17_UpdateSetsOnlyItsKeys ==
    [][(writer.pc = "idle" /\ writer'.pc = "updated") =>
          LET job_id == writer'.job
              updates == writer'.updates
              old == IF job_id \in DOMAIN jobs THEN jobs[job_id] ELSE <<>>
              new == jobs'[job_id]
          IN  /\ job_id \notin DOMAIN jobs => new = updates
              /\ DOMAIN new = DOMAIN old \cup DOMAIN updates
              /\ \A k \in DOMAIN updates : new[k] = updates[k]
              /\ \A k \in DOMAIN old \ DOMAIN updates : new[k] = old[k]
              /\ DOMAIN updates = {"status", "error"} =>
                    \A k \in {"progress", "stage", "speakers", "transcript",
                               "outputs"} \cap DOMAIN old : new[k] = old[k]
      ]_vars

\* The error update of a run that failed in diarization has been applied to
\* a record at the diarizing stage: the status is 'error', progress and stage
\* are still those of that stage.
C17_Witness ==
    /\ writer.pc = "updated"
    /\ backend = "local"
    /\ DOMAIN writer.updates = {"status", "error"}
    /\ writer.known
    /\ DOMAIN writer.before = DOMAIN initial_status
    /\ writer.before["status"] = "diarizing"
    /\ jobs[writer.job]["status"] = "error"
    /\ jobs[writer.job]["error"] = exception_message("diarize")
    /\ jobs[writer.job]["progress"] = 65
    /\ jobs[writer.job]["stage"] = "Identifying speakers..."
    /\ jobs[writer.job]["outputs"] = {}

\* The call of transcribe_with_assemblyai is over.
PollOver == poll.pc \in {"returned", "raised"}

\* C18: transcribe_with_assemblyai returns only on a poll answered
\* 'completed' and raises on one answered 'error'; on any other status it
\* sleeps and polls again, however many polls it has made; so it ends once the
\* service reports 'completed' or 'error', and it ends in no other way than
\* that or an exception of the request or of a poll.
C18_PollsUntilCompletedOrError ==
    /\ [][(poll.pc = "poll" /\ poll'.pc # "poll") =>
            \/ /\ poll'.pc = "returned"
               /\ poll'.seen = "completed"
               /\ remote = "completed"
            \/ /\ poll'.pc = "raised"
               /\ \/ poll'.seen = "error" /\ remote = "error"
                  \/ poll'.seen = ""
            \/ /\ poll'.pc = "sleep"
               /\ poll'.seen = remote
               /\ remote \notin {"completed", "error"}]_vars
    /\ [][(poll.pc = "sleep" /\ poll' # poll) => poll'.pc = "poll"]_vars
    /\ [][PollOver => poll' = poll]_vars
    /\ (remote \in {"completed", "error"}) ~> PollOver

\* The call returned the completed transcript after more polls than are
\* counted.
C18_Witness ==
    /\ poll.pc = "returned"
    /\ poll.polls = MaxCounted + 1
    /\ poll.seen = "completed"

\* C19: validate_hf_token leaves hf_token_valid false for an empty HF_TOKEN
\* or one without the prefix 'hf_', having made no request; true when whoami
\* answers 200; else true when the model endpoint answers 200, false when it
\* answers 401 or 403, true for any other status and when a request raises.
\* When it returns False, hf_token_error is a message, and what it returns is
\* hf_token_valid.
C19_TokenValidation ==
    token_check.pc = "returned" =>
        LET token == token_check.HF_TOKEN
            well_formed == /\ Len(token) >= 3
                           /\ token[1] = "h" /\ token[2] = "f" /\ token[3] = "_"
            whoami == token_check.whoami
            model == token_check.model
        IN  /\ token_check.returned = hf_token_valid
            /\ ~token_check.returned => hf_token_error # ""
            /\ ~well_formed => (~hf_token_valid /\ token_check.requests = 0)
            /\ well_formed =>
                  /\ token_check.requests >= 1
                  /\ hf_token_valid =
                       \/ whoami.raised # ""
                       \/ whoami.status_code = 200
                       \/ model.raised # ""
                       \/ model.status_code \notin {401, 403}

\* The token has the prefix, whoami answered 401 and the model endpoint 429:
\* the token is let through with the status in the message.
C19_Witness ==
    /\ token_check.pc = "returned"
    /\ token_check.whoami.status_code = 401
    /\ token_check.model.status_code = 429
    /\ token_check.requests = 2
    /\ hf_token_valid
    /\ hf_token_error = "HuggingFace API returned status 429"

\* The utterances of a speaker whose extraction succeeded.
Extracted(id) ==
    {i \in 1..Len(utterances) : CloudLabel(i) = id /\ extract_ok[i]}

\* C20: each file of the cloud split is the concatenation, in input order, of
\* the speaker's utterances whose extraction succeeded, a failed extraction
\* being skipped; a speaker is in the result exactly when one of its
\* utterances was extracted and the concatenation did not fail; the result is
\* in the sorted order of the speaker ids, one entry a speaker at most.
C20_CloudSplitConcatenatesExtracted ==
    CloudSplitDone =>
        /\ CloudFilesAreConcatenations
        /\ \A id \in {"A", "B"} :
              (\E k \in 1..Len(speaker_audios) : speaker_audios[k].speaker = id)
                  <=> /\ Extracted(id) # {}
                      /\ Cardinality(Extracted(id)) = 1 \/ concat_ok
        /\ \A k, l \in 1..Len(speaker_audios) :
              k < l => /\ speaker_audios[k].speaker = "A"
                       /\ speaker_audios[l].speaker = "B"

\* Two utterances of speaker B, the later part of the source first, both
\* extracted and joined in that order; a third speaker has no file.
C20_Witness ==
    /\ CloudSplitDone
    /\ Len(utterances) = 2
    /\ CloudLabel(1) = "B" /\ CloudLabel(2) = "B"
    /\ utterances[1].start = 1 /\ utterances[1].end = 2
    /\ utterances[2].start = 0 /\ utterances[2].end = 1
    /\ extract_ok[1] /\ extract_ok[2] /\ concat_ok
    /\ Len(speaker_audios) = 1
    /\ speaker_audios[1].speaker = "B"
    /\ speaker_audios[1].data = <<audio[2], audio[1]>>

\* vad.py holds none of the three code patterns patch_vad looks for.
NoPattern(content) ==
    /\ ~contains(content, "old_urllib")
    /\ ~contains(content, "old_requests")
    /\ ~contains(content, "old_check")

\* C21: once a run of patch_vad has written vad.py, every later run returns
\* True, writes nothing and leaves the text as it is; a run that looks for
\* the code patterns and finds none returns False and writes nothing.
C21_PatchVadIdempotent ==
    /\ [][vad.modified =>
             /\ vad'.returned
             /\ ~vad'.written
             /\ vad'.content = vad.content]_vars
    /\ [][(/\ vad.exists
           /\ ~already_patched(vad.content)
           /\ NoPattern(vad.content)) =>
             /\ ~vad'.returned
             /\ ~vad'.written
             /\ vad'.content = vad.content]_vars

\* A file with the checksum test alone was patched by the first run, and
\* two more runs have found it patched.
C21_Witness ==
    /\ vad.runs = 3
    /\ vad.modified
    /\ vad.content = <<"other", "new_check">>
    /\ vad.returned
    /\ ~vad.written

\* The place of a status on the way of a run of process_audio.
StatusRank(status) ==
    CASE status = "processing"   -> 1
      [] status = "transcribing" -> 2
      [] status = "diarizing"    -> 3
      [] status = "splitting"    -> 4
      [] status = "complete"     -> 5
      [] status = "error"        -> 6

\* Task t is inside its run of process_audio.
Running(t) == tasks[t].pc \notin {"queued", "done", "failed"}

ProgressValues == <<30, 35, 35, 40, 45, 55, 65, 75, 80, 85, 100>>

ResetValues == IF backend = "local" THEN initial_status ELSE queued_status

\* C24: POST /process for a job id that has a record sets status, progress,
\* stage, speakers, transcript and outputs to their initial values and keeps
\* every other key with its value; an 'error' key, once in a record, stays
\* in it, so the message of a failed run is still there when a later run
\* for the id has reached 'complete' or 'completed'.
C24_RepostKeepsOtherKeys ==
    /\ [][\A j \in DOMAIN jobs :
            posts'[j] = posts[j] + 1 =>
                /\ DOMAIN jobs'[j] = DOMAIN jobs[j] \cup DOMAIN ResetValues
                /\ \A k \in DOMAIN ResetValues :
                      jobs'[j][k] = ResetValues[k]
                /\ \A k \in DOMAIN jobs[j] \ DOMAIN ResetValues :
                      jobs'[j][k] = jobs[j][k]]_vars
    /\ [](\A j \in DOMAIN jobs :
            (\E t \in TasksOf(j) : tasks[t].raised # "") =>
                /\ "error" \in DOMAIN jobs[j]
                /\ \E t \in TasksOf(j) :
                      /\ tasks[t].raised # ""
                      /\ jobs[j]["error"] = tasks[t].raised)

\* A job failed, was posted again, and the second run is complete: the
\* record is 'complete' at 100 and still holds the message of the first run.
C24_Witness ==
    /\ backend = "local"
    /\ \E j \in DOMAIN jobs :
          /\ posts[j] = 2
          /\ jobs[j]["status"] = "complete"
          /\ jobs[j]["progress"] = 100
          /\ "error" \in DOMAIN jobs[j]
          /\ jobs[j]["error"] = "CUDA out of memory"
          /\ \E t, u \in TasksOf(j) :
                /\ t < u
                /\ tasks[t].pc = "failed"
                /\ tasks[u].pc = "done"

\* The step is one of the streamed run: it yields a message.
Streams == stream'.messages # stream.messages

\* C25: a run of POST /transcribe or POST /split never creates or changes a
\* job record or a status.json: every step of the run leaves the jobs map
\* and the status files as they are, and GET /jobs/{id} for an id that no
\* POST /process has named answers 404.
C25_StreamingLeavesJobsAlone ==
    /\ [][Streams => jobs' = jobs /\ status_files' = status_files]_vars
    /\ [][\A j \in JobIds :
            (reply'.endpoint = "get_job" /\ reply'.job = j /\ posts[j] = 0
             /\ reply' # reply) => reply'.code = 404]_vars
    /\ [](\A j \in JobIds :
            posts[j] = 0 => j \notin DOMAIN jobs \cup DOMAIN status_files)

\* The local split for job-a has run to its end, another job was posted
\* meanwhile, and GET /jobs/job-a answers 404.
C25_Witness ==
    /\ stream # <<>>
    /\ stream.pc = "done"
    /\ stream.job = "job-a"
    /\ Len(stream.messages) > 1
    /\ posts["job-a"] = 0
    /\ posts["job-b"] = 1
    /\ DOMAIN jobs = {"job-b"}
    /\ reply.endpoint = "get_job"
    /\ reply.job = "job-a"
    /\ reply.code = 404

\* p <= q for progress values.
ProgressLeq(p, q) == p.num * q.den <= q.num * p.den

\* A terminal message: progress 100 with stage 'Complete', or an error.
TerminalMessage(message) ==
    \/ "error" \in message.keys
    \/ /\ "progress" \in message.keys
       /\ message.progress = whole(100)
       /\ message.stage = "Complete"

\* C26: a streamed run that has ended has yielded one terminal message, its
\* last: progress 100 with stage 'Complete', or a message with the key
\* 'error'. No message follows an error message, there is one error message
\* at most, and the messages before the terminal one have progress values
\* that never decrease and are below 100.
C26_OneTerminalMessageLast ==
    stream # <<>> =>
        LET messages == stream.messages
            n == Len(messages)
        IN  /\ stream.pc = "done" <=>
                  (n > 0 /\ TerminalMessage(messages[n]))
            /\ stream.pc = "done" =>
                  ~ENABLED (\/ GenerateYields \/ GenerateSpeaker
                            \/ GenerateReturnsEarly \/ GenerateRaises
                            \/ GenerateCompletes)
            /\ \A i \in 1..(n - 1) :
                  /\ ~TerminalMessage(messages[i])
                  /\ "error" \notin messages[i].keys
                  /\ messages[i].keys = {"progress", "stage"}
                  /\ ~ProgressLeq(whole(100), messages[i].progress)
                  /\ \A k \in 1..(i - 1) :
                        ProgressLeq(messages[k].progress, messages[i].progress)
            /\ \A i \in 1..n :
                  (i = n /\ stream.pc = "run") =>
                      /\ ~ProgressLeq(whole(100), messages[i].progress)
                      /\ \A k \in 1..(i - 1) :
                            ProgressLeq(messages[k].progress,
                                        messages[i].progress)

\* The local split of an audio with two speakers has run to its end: eleven
\* messages, the ninth at 87.5, the tenth at 95, the last the terminal one.
C26_Witness ==
    /\ stream # <<>>
    /\ backend = "local"
    /\ stream.endpoint = "split"
    /\ stream.pc = "done"
    /\ Len(stream.messages) = 11
    /\ stream.messages[9].progress = [num |-> 175, den |-> 2]
    /\ stream.messages[10].progress = [num |-> 190, den |-> 2]
    /\ stream.messages[11].progress = whole(100)
    /\ stream.messages[11].stage = "Complete"

====
